---- MODULE Spec2Model ----
(***************************************************************************)
(* State-machine model of the text-adventure game: the SQLite store        *)
(* (db.py), the memory manager (memory.py), the LLM client's retry loop    *)
(* (llm.py) and the story engine (story_engine.py).                        *)
(*                                                                         *)
(* Python values: an optional argument or field is <<>> (None) or <<v>>;   *)
(* a TEXT column is a string, NullText standing for SQL NULL / None.       *)
(***************************************************************************)
EXTENDS Integers, Sequences, FiniteSets, TLC

VARIABLES
    db,      \* the SQLite file: tables player, game_state, events, npcs, inventory
    engine,  \* StoryEngine fields: current_round, current_game_id, current_player, story_log
    files,   \* transcripts written under data/logs
    env,     \* data/prompts/story_generation.txt: absent, or the placeholders it uses
    last,    \* the call that finished last: operation, arguments, outcome, what it read
    gen,     \* one LLMClient.generate_text call in progress (the retry loop)
    dbres,   \* the last Database / MemoryManager call of a store-level run and its result
    handler, \* the InputHandler object: None, or its fields once __init__ has returned
    frame    \* a process_action call run statement by statement: position and locals

vars == <<db, engine, files, env, last, gen, dbres, handler, frame>>

-----------------------------------------------------------------------------
(* Bounds of the model *)

MaxPlayers == 1     \* create_player calls
MaxRound == 2       \* cap on the engine's in-memory round counter
MaxStarts == 2      \* start_game calls (story-log entries made by start_game)
MaxFiles == 1       \* cap on the number of transcripts written
MaxGames == 2       \* game ids used in the store-level runs
MaxEvents == 3      \* cap on the rows of the events table (store-level runs)
MaxLimit == 3       \* largest limit passed to get_recent_events (store-level runs)
MaxNpcs == 3        \* cap on the rows of the npcs table before an extraction call
MaxItems == 4       \* cap on the length of an inventory before an extraction call

MaxCreated == 3     \* create_player calls of the run on the player table alone

MaxStoreRows == 4   \* cap on the event, NPC and item rows together (memory-manager run)

(* Inputs *)

Names == <<"Ada", "Bo", "Cy", "Di">>     \* the name of the n-th player created
Texts == {"", "s1"}             \* texts the generation service may return
PlayerActions == {"look", "1"}        \* player action strings
Prompts == {"", "p1", "p2", "p3"}
SystemPrompts == {<<>>, <<"">>, <<"sys">>, <<"sys2">>}
\* lines typed at the prompt: the commands in lower and mixed case, choices, free text
UserInputs == {"i", "Inventory", "j", "JOURNAL", "c", "Characters", "h", "Help", "q", "Quit", "EXIT", "inventory", "journal", "characters", "help", "quit", "exit", "1", " 2 ", "4", "explore the ruins"}
\* answers to the confirmation question of the quit command
Confirmations == {"y", "n", "Yes"}
\* the lines typed during one run of main, after the character has been created
Scripts == {<<"explore the ruins", "q", "y">>, <<"1", "i", "quit", "n", "exit", "Yes">>, <<"q", "y">>, <<"h">>}
\* narrative texts with dialogue lines, for extract_npcs_from_text
NpcTexts == {"Bob: 'hi'",
             "Bob: 'hi'\nBob: 'bye'",
             "bob said 'no'",
             "You: 'a'\nyou said 'a'\nI: 'a'\ni asked 'a'\nWe: 'a'\nWE replied 'a'\nThey: 'a'\nthey shouted 'a'\nAl: 'e'"}
\* narrative texts with item phrases, for extract_items_from_text
ItemTexts == {"Found a key.",
              "Found a Key. found a key, picked up an old map",
              "given an apple\ndiscovered a key",
              "Nothing."}

-----------------------------------------------------------------------------
\* segments of a game, for the memory-manager calls that follow a generated segment
SegmentTexts == {"Bob: 'hi'", "bob said 'no'", "Found a key.", "given an apple\ndiscovered a key",
                 "Abcdefghijklmnopqrsu: 'x'\nAbcdefghijklmnopqrst said 'x'"}

(* Python / SQL values *)

None == <<>>
Some(v) == <<v>>
IsNone(o) == o = <<>>
NullText == "<NULL>"
NoneId == 0
Truthy(t) == t # NullText /\ t # ""

RECURSIVE SelectIdx(_, _, _)
\* indexes i >= from of seq s.t. the row's game_id is g, in rowid order
SelectIdx(rows, g, from) ==
    IF from > Len(rows) THEN <<>>
    ELSE IF rows[from].game_id = g THEN <<from>> \o SelectIdx(rows, g, from + 1)
    ELSE SelectIdx(rows, g, from + 1)

RECURSIVE InsertByRound(_, _)
\* insert row r into the round-sorted sequence, after the rows of equal round
InsertByRound(sorted, r) ==
    IF sorted = <<>> THEN <<r>>
    ELSE IF r.round < Head(sorted).round THEN <<r>> \o sorted
    ELSE <<Head(sorted)>> \o InsertByRound(Tail(sorted), r)

RECURSIVE OrderByRoundAsc(_)
OrderByRoundAsc(rows) ==
    IF rows = <<>> THEN <<>>
    ELSE InsertByRound(OrderByRoundAsc(SubSeq(rows, 1, Len(rows) - 1)), rows[Len(rows)])

Limit(rows, n) ==
    IF n < 0 \/ n >= Len(rows) THEN rows ELSE SubSeq(rows, 1, n)

-----------------------------------------------------------------------------
(* db.py: Database *)

EmptyDb ==
    [player |-> <<>>, game_state |-> <<>>, events |-> <<>>, npcs |-> <<>>,
     inventory |-> <<>>]

RECURSIVE FirstGameOf(_, _, _)
FirstGameOf(d, player_id, from) ==
    IF from > Len(d.game_state) THEN NoneId
    ELSE IF d.game_state[from].player_id = player_id THEN from
    ELSE FirstGameOf(d, player_id, from + 1)

get_player(d, player_id) ==
    [id |-> player_id,
     name |-> d.player[player_id].name,
     background |-> d.player[player_id].background,
     traits |-> d.player[player_id].traits,
     description |-> d.player[player_id].description,
     game_id |-> FirstGameOf(d, player_id, 1)]

\* a create_player that leaves out the INSERT INTO inventory
create_player_without_inventory(d, name, background, traits, description) ==
    [d EXCEPT
        !.player = Append(@, [name |-> name, background |-> background,
                              traits |-> traits, description |-> description]),
        !.game_state = Append(@, [player_id |-> Len(d.player) + 1, current_round |-> 1,
                                  current_situation |-> NullText,
                                  story_premise |-> NullText,
                                  current_summary |-> NullText])]

create_player(d, name, background, traits, description) ==
    LET player_id == Len(d.player) + 1
        game_id == Len(d.game_state) + 1
    IN  [d EXCEPT
            !.player = Append(@, [name |-> name, background |-> background,
                                  traits |-> traits, description |-> description]),
            !.game_state = Append(@, [player_id |-> player_id, current_round |-> 1,
                                      current_situation |-> NullText,
                                      story_premise |-> NullText,
                                      current_summary |-> NullText]),
            !.inventory = Append(@, [game_id |-> game_id, items |-> <<>>])]

\* an update that tests its arguments for truth (`if current_situation:`) where the
\* code tests `is not None`
Db_update_game_state_truthy(d, game_id, current_round, current_situation, story_premise, current_summary) ==
    IF game_id \notin DOMAIN d.game_state THEN d
    ELSE LET row == d.game_state[game_id]
             r1 == IF IsNone(current_round) \/ current_round[1] = 0 THEN row
                   ELSE [row EXCEPT !.current_round = current_round[1]]
             r2 == IF IsNone(current_situation) \/ current_situation[1] = "" THEN r1
                   ELSE [r1 EXCEPT !.current_situation = current_situation[1]]
             r3 == IF IsNone(story_premise) \/ story_premise[1] = "" THEN r2
                   ELSE [r2 EXCEPT !.story_premise = story_premise[1]]
             r4 == IF IsNone(current_summary) \/ current_summary[1] = "" THEN r3
                   ELSE [r3 EXCEPT !.current_summary = current_summary[1]]
         IN  [d EXCEPT !.game_state[game_id] = r4]

Db_update_game_state(d, game_id, current_round, current_situation, story_premise, current_summary) ==
    IF game_id \notin DOMAIN d.game_state THEN d
    ELSE LET row == d.game_state[game_id]
             r1 == IF IsNone(current_round) THEN row
                   ELSE [row EXCEPT !.current_round = current_round[1]]
             r2 == IF IsNone(current_situation) THEN r1
                   ELSE [r1 EXCEPT !.current_situation = current_situation[1]]
             r3 == IF IsNone(story_premise) THEN r2
                   ELSE [r2 EXCEPT !.story_premise = story_premise[1]]
             r4 == IF IsNone(current_summary) THEN r3
                   ELSE [r3 EXCEPT !.current_summary = current_summary[1]]
         IN  [d EXCEPT !.game_state[game_id] = r4]

\* a lookup whose default for a missing row is the row of a new game: NULL texts
Db_get_game_state_null_default(d, game_id) ==
    IF game_id \in DOMAIN d.game_state
    THEN [id |-> game_id,
          current_round |-> d.game_state[game_id].current_round,
          current_situation |-> d.game_state[game_id].current_situation,
          story_premise |-> d.game_state[game_id].story_premise,
          current_summary |-> d.game_state[game_id].current_summary]
    ELSE [id |-> game_id, current_round |-> 1, current_situation |-> NullText,
          story_premise |-> NullText, current_summary |-> NullText]

Db_get_game_state(d, game_id) ==
    IF game_id \in DOMAIN d.game_state
    THEN [id |-> game_id,
          current_round |-> d.game_state[game_id].current_round,
          current_situation |-> d.game_state[game_id].current_situation,
          story_premise |-> d.game_state[game_id].story_premise,
          current_summary |-> d.game_state[game_id].current_summary]
    ELSE [id |-> game_id, current_round |-> 1, current_situation |-> "",
          story_premise |-> "", current_summary |-> ""]

Db_add_event(d, game_id, round_num, description, player_action) ==
    [d EXCEPT !.events = Append(@, [game_id |-> game_id, round |-> round_num,
                                    description |-> description,
                                    player_action |-> player_action])]

\* the query without its ORDER BY clause: rows in rowid order
Db_get_recent_events_unordered(d, game_id, limit) ==
    LET idx == SelectIdx(d.events, game_id, 1)
    IN  Limit([i \in 1..Len(idx) |->
                  [id |-> idx[i], game_id |-> game_id,
                   round |-> d.events[idx[i]].round,
                   description |-> d.events[idx[i]].description,
                   player_action |-> d.events[idx[i]].player_action]], limit)

\* SELECT * FROM events WHERE game_id = ? ORDER BY round ASC LIMIT ?
Db_get_recent_events(d, game_id, limit) ==
    LET idx == SelectIdx(d.events, game_id, 1)
        rows == [i \in 1..Len(idx) |->
                    [id |-> idx[i], game_id |-> game_id,
                     round |-> d.events[idx[i]].round,
                     description |-> d.events[idx[i]].description,
                     player_action |-> d.events[idx[i]].player_action]]
    IN  Limit(OrderByRoundAsc(rows), limit)

Db_add_npc(d, game_id, name, description, relationship, first_met_round) ==
    [d EXCEPT !.npcs = Append(@, [game_id |-> game_id, name |-> name,
                                  description |-> description,
                                  relationship |-> relationship,
                                  first_met_round |-> first_met_round])]

Db_get_npcs(d, game_id) ==
    LET idx == SelectIdx(d.npcs, game_id, 1)
    IN  [i \in 1..Len(idx) |->
            [id |-> idx[i], game_id |-> game_id, name |-> d.npcs[idx[i]].name,
             description |-> d.npcs[idx[i]].description,
             relationship |-> d.npcs[idx[i]].relationship,
             first_met_round |-> d.npcs[idx[i]].first_met_round]]

Db_update_inventory(d, game_id, items) ==
    [d EXCEPT !.inventory =
        [i \in DOMAIN @ |-> IF @[i].game_id = game_id
                            THEN [@[i] EXCEPT !.items = items] ELSE @[i]]]

Db_get_inventory(d, game_id) ==
    LET idx == SelectIdx(d.inventory, game_id, 1)
    IN  IF idx = <<>> THEN <<>> ELSE d.inventory[idx[1]].items

-----------------------------------------------------------------------------
(* llm.py: LLMClient.generate_text, the retry loop *)

max_retries == 3
initial_retry_delay == 2
Fallback == "I'm having trouble connecting to my storytelling abilities right now. Please try again."
Fail == "<exception>"   \* an attempt of client.chat.completions.create that raises
Outcomes == Texts \cup {Fail}

\* the messages list built before the loop
Messages(prompt, system_prompt) ==
    (IF system_prompt # None /\ system_prompt[1] # ""
     THEN <<[role |-> "system", content |-> system_prompt[1]]>> ELSE <<>>)
    \o <<[role |-> "user", content |-> prompt]>>

GenStart(prompt, system_prompt) ==
    [pc |-> "loop", messages |-> Messages(prompt, system_prompt), attempt |-> 0,
     retry_delay |-> initial_retry_delay, slept |-> <<>>, seen |-> <<>>,
     result |-> NullText]

\* the delay left as it is after a failed attempt
NextDelayConstant(retry_delay) == retry_delay
\* retry_delay *= 2
NextDelay(retry_delay) == retry_delay * 2

\* one iteration of `for attempt in range(max_retries)`, the attempt ending in o
GenStep(g, o) ==
    IF o # Fail
    THEN [g EXCEPT !.pc = "returned", !.result = o, !.seen = Append(@, o)]
    ELSE IF g.attempt < max_retries - 1
    THEN [g EXCEPT !.slept = Append(@, g.retry_delay),
                   !.retry_delay = NextDelay(@),
                   !.attempt = @ + 1, !.seen = Append(@, o)]
    ELSE [g EXCEPT !.pc = "returned", !.result = Fallback, !.seen = Append(@, o)]

RECURSIVE GenRun(_, _)
\* the loop run to its return, attempt k ending in outcomes[k]
GenRun(g, outcomes) ==
    IF g.pc = "returned" \/ outcomes = <<>> THEN g
    ELSE GenRun(GenStep(g, Head(outcomes)), Tail(outcomes))

generate_text(prompt, system_prompt, outcomes) ==
    GenRun(GenStart(prompt, system_prompt), outcomes)

-----------------------------------------------------------------------------
(* Python str operations, a text being the sequence of its characters *)

Whitespace == {" ", "\n", "\t"}
UpperCase == <<"A","B","C","D","E","F","G","H","I","J","K","L","M","N","O","P","Q","R","S","T","U","V","W","X","Y","Z">>
LowerCase == <<"a","b","c","d","e","f","g","h","i","j","k","l","m","n","o","p","q","r","s","t","u","v","w","x","y","z">>

LowerChar(c) ==
    IF \E i \in DOMAIN UpperCase : UpperCase[i] = c
    THEN LowerCase[CHOOSE i \in DOMAIN UpperCase : UpperCase[i] = c] ELSE c

Lower(s) == [i \in DOMAIN s |-> LowerChar(s[i])]

StartsAt(s, sub, i) ==
    /\ i + Len(sub) - 1 <= Len(s)
    /\ \A k \in 1..Len(sub) : s[i + k - 1] = sub[k]

\* sub in s
Contains(s, sub) == \E i \in 1..(Len(s) + 1) : StartsAt(s, sub, i)

\* s.find(sub) + 1, 0 when absent
Find(s, sub) ==
    IF Contains(s, sub)
    THEN CHOOSE i \in 1..(Len(s) + 1) :
            StartsAt(s, sub, i) /\ \A j \in 1..(i - 1) : ~StartsAt(s, sub, j)
    ELSE 0

RECURSIVE Split(_, _)
\* s.split(sep), sep non-empty
Split(s, sep) ==
    LET i == Find(s, sep)
    IN  IF i = 0 THEN <<s>>
        ELSE <<SubSeq(s, 1, i - 1)>> \o Split(SubSeq(s, i + Len(sep), Len(s)), sep)

RECURSIVE LStrip(_)
LStrip(s) == IF s # <<>> /\ Head(s) \in Whitespace THEN LStrip(Tail(s)) ELSE s

RECURSIVE RStrip(_)
RStrip(s) ==
    IF s # <<>> /\ s[Len(s)] \in Whitespace THEN RStrip(SubSeq(s, 1, Len(s) - 1)) ELSE s

Strip(s) == RStrip(LStrip(s))

RECURSIVE Word(_)
\* the leading run of non-whitespace characters
Word(s) ==
    IF s = <<>> \/ Head(s) \in Whitespace THEN <<>> ELSE <<Head(s)>> \o Word(Tail(s))

RECURSIVE SplitWs(_)
\* s.split(): the words between runs of whitespace
SplitWs(s) ==
    LET t == LStrip(s)
    IN  IF t = <<>> THEN <<>>
        ELSE <<Word(t)>> \o SplitWs(SubSeq(t, Len(Word(t)) + 1, Len(t)))

InSeq(x, seq) == \E i \in DOMAIN seq : seq[i] = x

\* the characters of the texts of the model
Chars(t) ==
    CASE t = "" -> <<>>
      [] t = "s1" -> <<"s", "1">>
      [] t = Fallback -> <<"I", "'", "m", " ", "h", "a", "v", "i", "n", "g">>
      [] t = "Bob: 'hi'" ->
            <<"B", "o", "b", ":", " ", "'", "h", "i", "'">>
      [] t = "Bob: 'hi'\nBob: 'bye'" ->
            <<"B", "o", "b", ":", " ", "'", "h", "i", "'", "\n", "B", "o", "b", ":", " ", "'", "b", "y", "e", "'">>
      [] t = "bob said 'no'" ->
            <<"b", "o", "b", " ", "s", "a", "i", "d", " ", "'", "n", "o", "'">>
      [] t = "You: 'a'\nyou said 'a'\nI: 'a'\ni asked 'a'\nWe: 'a'\nWE replied 'a'\nThey: 'a'\nthey shouted 'a'\nAl: 'e'" ->
            <<"Y", "o", "u", ":", " ", "'", "a", "'", "\n", "y", "o", "u", " ", "s", "a", "i", "d", " ", "'", "a", "'", "\n", "I", ":", " ", "'", "a", "'", "\n", "i", " ", "a", "s", "k", "e", "d", " ", "'", "a", "'", "\n", "W", "e", ":", " ", "'", "a", "'", "\n", "W", "E", " ", "r", "e", "p", "l", "i", "e", "d", " ", "'", "a", "'", "\n", "T", "h", "e", "y", ":", " ", "'", "a", "'", "\n", "t", "h", "e", "y", " ", "s", "h", "o", "u", "t", "e", "d", " ", "'", "a", "'", "\n", "A", "l", ":", " ", "'", "e", "'">>
      [] t = "Abcdefghijklmnopqrsu: 'x'\nAbcdefghijklmnopqrst said 'x'" ->
            <<"A", "b", "c", "d", "e", "f", "g", "h", "i", "j", "k", "l", "m", "n", "o", "p", "q", "r", "s", "u", ":", " ", "'", "x", "'", "\n", "A", "b", "c", "d", "e", "f", "g", "h", "i", "j", "k", "l", "m", "n", "o", "p", "q", "r", "s", "t", " ", "s", "a", "i", "d", " ", "'", "x", "'">>
      [] t = "Found a key." ->
            <<"F", "o", "u", "n", "d", " ", "a", " ", "k", "e", "y", ".">>
      [] t = "Found a Key. found a key, picked up an old map" ->
            <<"F", "o", "u", "n", "d", " ", "a", " ", "K", "e", "y", ".", " ", "f", "o", "u", "n", "d", " ", "a", " ", "k", "e", "y", ",", " ", "p", "i", "c", "k", "e", "d", " ", "u", "p", " ", "a", "n", " ", "o", "l", "d", " ", "m", "a", "p">>
      [] t = "given an apple\ndiscovered a key" ->
            <<"g", "i", "v", "e", "n", " ", "a", "n", " ", "a", "p", "p", "l", "e", "\n", "d", "i", "s", "c", "o", "v", "e", "r", "e", "d", " ", "a", " ", "k", "e", "y">>
      [] t = "Nothing." ->
            <<"N", "o", "t", "h", "i", "n", "g", ".">>
      [] t = "i" -> <<"i">>
      [] t = "inventory" -> <<"i", "n", "v", "e", "n", "t", "o", "r", "y">>
      [] t = "j" -> <<"j">>
      [] t = "journal" -> <<"j", "o", "u", "r", "n", "a", "l">>
      [] t = "c" -> <<"c">>
      [] t = "characters" -> <<"c", "h", "a", "r", "a", "c", "t", "e", "r", "s">>
      [] t = "h" -> <<"h">>
      [] t = "help" -> <<"h", "e", "l", "p">>
      [] t = "q" -> <<"q">>
      [] t = "quit" -> <<"q", "u", "i", "t">>
      [] t = "exit" -> <<"e", "x", "i", "t">>
      [] t = "I" -> <<"I">>
      [] t = "Inventory" -> <<"I", "n", "v", "e", "n", "t", "o", "r", "y">>
      [] t = "JOURNAL" -> <<"J", "O", "U", "R", "N", "A", "L">>
      [] t = "Characters" -> <<"C", "h", "a", "r", "a", "c", "t", "e", "r", "s">>
      [] t = "Help" -> <<"H", "e", "l", "p">>
      [] t = "Quit" -> <<"Q", "u", "i", "t">>
      [] t = "EXIT" -> <<"E", "X", "I", "T">>
      [] t = "1" -> <<"1">>
      [] t = " 2 " -> <<" ", "2", " ">>
      [] t = "4" -> <<"4">>
      [] t = "explore the ruins" -> <<"e", "x", "p", "l", "o", "r", "e", " ", "t", "h", "e", " ", "r", "u", "i", "n", "s">>
      [] t = "y" -> <<"y">>
      [] t = "n" -> <<"n">>
      [] t = "Yes" -> <<"Y", "e", "s">>
      [] OTHER -> <<>>

-----------------------------------------------------------------------------
(* memory.py: MemoryManager *)

\* positional argument i of a call, None when the call does not give it
Arg(args, i) == IF i <= Len(args) THEN Some(args[i]) ELSE None

\* an update_game_state that takes and forwards the premise and the summary as well
MM_update_game_state_forwarding(d, args) ==
    [raised |-> FALSE,
     db |-> Db_update_game_state(d, args[1], Arg(args, 2), Arg(args, 3), Arg(args, 4), Arg(args, 5))]

\* def update_game_state(self, game_id, current_round=None, current_situation=None):
\* args are the positional arguments of a call; more than three raise TypeError
MM_update_game_state(d, args) ==
    IF Len(args) > 3 THEN [raised |-> TRUE, db |-> d]
    ELSE [raised |-> FALSE,
          db |-> Db_update_game_state(d, args[1], Arg(args, 2), Arg(args, 3), None, None)]

StopList == {<<"y","o","u">>, <<"i">>, <<"w","e">>, <<"t","h","e","y">>}
SpeechVerbs == << <<"s","a","y","s">>, <<"s","a","i","d">>, <<"a","s","k","e","d">>, <<"r","e","p","l","i","e","d">>, <<"s","h","o","u","t","e","d">>, <<"w","h","i","s","p","e","r","e","d">> >>
MaxNameLen == 20

ColonCandidate(parts) ==
    LET name == Strip(Split(parts, <<":">>)[1])
    IN  IF Contains(parts, <<":">>) /\ name # <<>> /\ Len(name) < MaxNameLen
           /\ Lower(name) \notin StopList
        THEN <<name>> ELSE <<>>

RECURSIVE VerbCandidatesUnfiltered(_, _)
\* the speech-verb pattern without its check against the pronoun list
VerbCandidatesUnfiltered(parts, k) ==
    IF k > Len(SpeechVerbs) THEN <<>>
    ELSE LET name_parts == SplitWs(Strip(Split(parts, SpeechVerbs[k])[1]))
             found == IF Contains(parts, SpeechVerbs[k]) /\ name_parts # <<>>
                      THEN <<name_parts[Len(name_parts)]>> ELSE <<>>
         IN  found \o VerbCandidatesUnfiltered(parts, k + 1)

RECURSIVE VerbCandidates(_, _)
VerbCandidates(parts, k) ==
    IF k > Len(SpeechVerbs) THEN <<>>
    ELSE LET name_parts == SplitWs(Strip(Split(parts, SpeechVerbs[k])[1]))
             found == IF Contains(parts, SpeechVerbs[k]) /\ name_parts # <<>>
                         /\ Lower(name_parts[Len(name_parts)]) \notin StopList
                      THEN <<name_parts[Len(name_parts)]>> ELSE <<>>
         IN  found \o VerbCandidates(parts, k + 1)

RECURSIVE PotentialNpcs(_)
\* the names proposed for the lines, in order
PotentialNpcs(lines) ==
    IF lines = <<>> THEN <<>>
    ELSE LET line == Head(lines)
             parts == Strip(Split(Split(line, <<"\"">>)[1], <<"'">>)[1])
         IN  (IF Contains(line, <<"\"">>) \/ Contains(line, <<"'">>)
              THEN ColonCandidate(parts) \o VerbCandidates(parts, 1) ELSE <<>>)
             \o PotentialNpcs(Tail(lines))

RECURSIVE AddNewNpcs(_, _, _, _, _)
AddNewNpcs(d, game_id, names, existing_names, current_round) ==
    IF names = <<>> THEN d
    ELSE AddNewNpcs(
            IF InSeq(Lower(Head(names)), existing_names) THEN d
            ELSE Db_add_npc(d, game_id, Head(names), [met_round |-> current_round],
                            "neutral", current_round),
            game_id, Tail(names), existing_names, current_round)

extract_npcs_from_text(d, text, game_id, current_round) ==
    LET potential_npcs == PotentialNpcs(Split(Chars(text), <<"\n">>))
        existing_npcs == Db_get_npcs(d, game_id)
        existing_names == [i \in DOMAIN existing_npcs |-> Lower(existing_npcs[i].name)]
    IN  AddNewNpcs(d, game_id, potential_npcs, existing_names, current_round)

ItemIndicators == << <<"f","o","u","n","d"," ","a"," ">>, <<"f","o","u","n","d"," ","a","n"," ">>, <<"p","i","c","k","e","d"," ","u","p"," ","a"," ">>, <<"p","i","c","k","e","d"," ","u","p"," ","a","n"," ">>, <<"d","i","s","c","o","v","e","r","e","d"," ","a"," ">>, <<"d","i","s","c","o","v","e","r","e","d"," ","a","n"," ">>, <<"o","b","t","a","i","n","e","d"," ","a"," ">>, <<"o","b","t","a","i","n","e","d"," ","a","n"," ">>, <<"r","e","c","e","i","v","e","d"," ","a"," ">>, <<"r","e","c","e","i","v","e","d"," ","a","n"," ">>, <<"g","i","v","e","n"," ","a"," ">>, <<"g","i","v","e","n"," ","a","n"," ">> >>
MaxItemLen == 30

RECURSIVE ItemsOfPartsIgnoringInventory(_, _, _, _)
\* the loop without `item not in current_inventory`
ItemsOfPartsIgnoringInventory(parts, k, current_inventory, new_items) ==
    IF k > Len(parts) THEN new_items
    ELSE LET item_part == Split(Split(Split(parts[k], <<".">>)[1], <<",">>)[1], <<"\n">>)[1]
             item == Strip(item_part)
             take == /\ item_part # <<>> /\ Len(item_part) < MaxItemLen
                     /\ item # <<>> /\ ~InSeq(item, new_items)
         IN  ItemsOfPartsIgnoringInventory(parts, k + 1, current_inventory,
                          IF take THEN Append(new_items, item) ELSE new_items)

RECURSIVE ItemsOfPartsRepeating(_, _, _, _)
\* the loop without `item not in new_items`
ItemsOfPartsRepeating(parts, k, current_inventory, new_items) ==
    IF k > Len(parts) THEN new_items
    ELSE LET item_part == Split(Split(Split(parts[k], <<".">>)[1], <<",">>)[1], <<"\n">>)[1]
             item == Strip(item_part)
             take == /\ item_part # <<>> /\ Len(item_part) < MaxItemLen
                     /\ item # <<>> /\ ~InSeq(item, current_inventory)
         IN  ItemsOfPartsRepeating(parts, k + 1, current_inventory,
                          IF take THEN Append(new_items, item) ELSE new_items)

RECURSIVE ItemsOfParts(_, _, _, _)
\* for i in range(1, len(parts)), parts[i] being parts[k] here
ItemsOfParts(parts, k, current_inventory, new_items) ==
    IF k > Len(parts) THEN new_items
    ELSE LET item_part == Split(Split(Split(parts[k], <<".">>)[1], <<",">>)[1], <<"\n">>)[1]
             item == Strip(item_part)
             take == /\ item_part # <<>> /\ Len(item_part) < MaxItemLen
                     /\ item # <<>> /\ ~InSeq(item, current_inventory)
                     /\ ~InSeq(item, new_items)
         IN  ItemsOfParts(parts, k + 1, current_inventory,
                          IF take THEN Append(new_items, item) ELSE new_items)

RECURSIVE NewItems(_, _, _, _)
NewItems(lower_text, k, current_inventory, new_items) ==
    IF k > Len(ItemIndicators) THEN new_items
    ELSE NewItems(lower_text, k + 1, current_inventory,
                  IF Contains(lower_text, ItemIndicators[k])
                  THEN ItemsOfParts(Split(lower_text, ItemIndicators[k]), 2,
                                    current_inventory, new_items)
                  ELSE new_items)

\* an extraction that stores the new items in place of the inventory
extract_items_replacing(d, text, game_id) ==
    LET current_inventory == Db_get_inventory(d, game_id)
        new_items == NewItems(Lower(Chars(text)), 1, current_inventory, <<>>)
    IN  IF new_items # <<>>
        THEN [db |-> Db_update_inventory(d, game_id, new_items), new_items |-> new_items]
        ELSE [db |-> d, new_items |-> <<>>]

extract_items_from_text(d, text, game_id) ==
    LET current_inventory == Db_get_inventory(d, game_id)
        new_items == NewItems(Lower(Chars(text)), 1, current_inventory, <<>>)
    IN  IF new_items # <<>>
        THEN [db |-> Db_update_inventory(d, game_id, current_inventory \o new_items),
              new_items |-> new_items]
        ELSE [db |-> d, new_items |-> <<>>]

\* reversed(seq)
Reversed(seq) == [i \in DOMAIN seq |-> seq[Len(seq) + 1 - i]]

NoEventsMessage == "No events recorded yet."
RecentEventsHeader == "\n=== RECENT EVENTS ===\n"

\* format_recent_events: the fixed message, or the header and one block per event of
\* reversed(events)
format_recent_events(d, game_id, limit) ==
    LET events == Db_get_recent_events(d, game_id, limit)
        shown == Reversed(events)
    IN  IF events = <<>> THEN [text |-> NoEventsMessage, blocks |-> <<>>]
        ELSE [text |-> RecentEventsHeader,
              blocks |-> [i \in DOMAIN shown |->
                            [round |-> shown[i].round,
                             description |-> shown[i].description,
                             player_action |-> shown[i].player_action]]]

-----------------------------------------------------------------------------
(* llm.py: the prompt builders *)

\* the keyword arguments of template.format(...) in generate_story_segment
SegmentKeys == {"character_info", "story_premise", "summary", "recent_events", "npc_relationships", "player_response"}
\* the placeholders of the story template that Config writes when the file is absent
ConfigStoryPlaceholders == {"character_description", "current_situation", "recent_events", "npc_relationships", "player_action"}
\* data/prompts/story_generation.txt: absent, as Config wrote it, or matching the call
StoryTemplates == {None, Some(ConfigStoryPlaceholders), Some(SegmentKeys)}

\* template = "" when the file is absent
Placeholders(template) == IF template = None THEN {} ELSE template[1]

\* str.format raises KeyError for a placeholder the call does not supply
FormatRaises(template, keys) == ~(Placeholders(template) \subseteq keys)

NpcsText(npc_relationships) ==
    IF npc_relationships = <<>> THEN <<"No established NPC relationships yet.">>
    ELSE [i \in DOMAIN npc_relationships |->
            [name |-> npc_relationships[i].name,
             relationship |-> npc_relationships[i].relationship,
             description |-> npc_relationships[i].description]]

\* generate_story_segment: one block per event, with the event's own action
SegmentEventsText(recent_events) ==
    IF recent_events = <<>> THEN <<"No previous events.">>
    ELSE [i \in DOMAIN recent_events |->
            [round |-> recent_events[i].round,
             description |-> recent_events[i].description,
             player_choice |-> recent_events[i].player_action]]

\* summarize_story: one block per event, with the action of the current call
SummaryEventsText(recent_events, player_action) ==
    IF recent_events = <<>> THEN <<"No previous events.">>
    ELSE [i \in DOMAIN recent_events |->
            [round |-> recent_events[i].round,
             description |-> recent_events[i].description,
             player_choice |-> player_action]]

generate_story_premise(character_info, outcomes) ==
    generate_text([character_info |-> character_info],
                  Some("You are a writer who is an expert and creating engaging stories"),
                  outcomes)

generate_story_segment(story_premise, character_description, current_situation, recent_events, npc_relationships, player_action, template, outcomes) ==
    IF FormatRaises(template, SegmentKeys)
    THEN [raised |-> TRUE, g |-> GenStart("", None)]
    ELSE [raised |-> FALSE,
          g |-> generate_text(
                  [character_info |-> character_description,
                   story_premise |-> story_premise,
                   summary |-> IF Truthy(current_situation) THEN current_situation
                               ELSE "Starting your journey in the wasteland.",
                   recent_events |-> SegmentEventsText(recent_events),
                   npc_relationships |-> NpcsText(npc_relationships),
                   player_response |-> player_action],
                  None, outcomes)]

summarize_story(story_premise, character_description, current_summary, recent_events, npc_relationships, player_action, outcomes) ==
    generate_text(
        [story_premise |-> story_premise,
         character_description |-> character_description,
         current_summary |-> IF Truthy(current_summary) THEN current_summary
                             ELSE "The story is just beginning.",
         recent_events |-> SummaryEventsText(recent_events, player_action),
         npc_relationships |-> NpcsText(npc_relationships),
         player_action |-> player_action],
        Some("You are a writer who is an expert at summarizing complex narratives in a concise and engaging way."),
        outcomes)

-----------------------------------------------------------------------------
(* story_engine.py: StoryEngine *)

DefaultRecentLimit == 5
EndGameRecentLimit == 10
BeginAction == "begin the adventure"

NewEngine ==
    [current_round |-> 1, current_game_id |-> NoneId, current_player |-> None,
     story_log |-> <<>>]

\* what a call leaves behind: the store, the engine, the files, and how it ended
Done(d, e, f, outcome, ret, obs) ==
    [db |-> d, engine |-> e, files |-> f, outcome |-> outcome, ret |-> ret, obs |-> obs]

\* what a call read and generated: the recent events, the premise, the segment, the
\* summary, and the generate_text calls it made (GenStart for a request not made)
Obs(recent, opening, segment, summary) ==
    [recent |-> recent, opening |-> opening.result, segment |-> segment.result,
     summary |-> summary.result,
     seg_failed |-> segment.pc = "returned" /\ \A i \in DOMAIN segment.seen : segment.seen[i] = Fail,
     sum_failed |-> summary.pc = "returned" /\ \A i \in DOMAIN summary.seen : summary.seen[i] = Fail]

NoGen == GenStart("", None)

NoObs == Obs(<<>>, NoGen, NoGen, NoGen)

start_game(d, e, f, player, template, premise_outcomes, segment_outcomes) ==
    LET e1 == [e EXCEPT !.current_player = Some(player),
                        !.current_game_id = player.game_id,
                        !.current_round = 1]
        game_id == e1.current_game_id
        premise == generate_story_premise(player.description, premise_outcomes)
        opening == premise.result
        e2 == [e1 EXCEPT !.story_log =
                  Append(@, [round |-> e1.current_round, text |-> opening,
                             action |-> BeginAction])]
        u1 == MM_update_game_state(d, <<game_id, e2.current_round, opening, opening, opening>>)
        seg == generate_story_segment(opening, player.description, opening, <<>>, <<>>,
                                      BeginAction, template, segment_outcomes)
        start == seg.g.result
        u2 == MM_update_game_state(u1.db, <<game_id, e2.current_round, start>>)
        d3 == Db_add_event(u2.db, game_id, e2.current_round, start, BeginAction)
        d4 == extract_npcs_from_text(d3, opening, game_id, e2.current_round)
        x5 == extract_items_from_text(d4, opening, game_id)
    IN  IF u1.raised
        THEN Done(d, e2, f, "TypeError", NullText, Obs(<<>>, premise, NoGen, NoGen))
        ELSE IF seg.raised
        THEN Done(u1.db, e2, f, "KeyError", NullText, Obs(<<>>, premise, NoGen, NoGen))
        ELSE IF u2.raised
        THEN Done(u1.db, e2, f, "TypeError", NullText, Obs(<<>>, premise, seg.g, NoGen))
        ELSE Done(x5.db, e2, f, "returned", NullText, Obs(<<>>, premise, seg.g, NoGen))

NoActiveGameError == "Error: No active game."

process_action(d, e, f, action, template, segment_outcomes, summary_outcomes) ==
    IF e.current_game_id = NoneId \/ e.current_player = None
    THEN Done(d, e, f, "returned", NoActiveGameError, NoObs)
    ELSE
    LET e1 == [e EXCEPT !.current_round = @ + 1]
        game_id == e1.current_game_id
        player == e1.current_player[1]
        game_state == Db_get_game_state(d, game_id)
        recent_events == Db_get_recent_events(d, game_id, DefaultRecentLimit)
        npcs == Db_get_npcs(d, game_id)
        seg == generate_story_segment(game_state.story_premise, player.description,
                                      game_state.current_situation, recent_events, npcs,
                                      action, template, segment_outcomes)
        next_segment == seg.g.result
        sum == summarize_story(game_state.story_premise, player.description,
                               game_state.current_summary, recent_events, npcs,
                               action, summary_outcomes)
        summary == sum.result
        u1 == MM_update_game_state(d, <<game_id, e1.current_round, next_segment,
                                        game_state.story_premise, summary>>)
        d2 == Db_add_event(u1.db, game_id, e1.current_round, next_segment, action)
        d3 == extract_npcs_from_text(d2, next_segment, game_id, e1.current_round)
        x4 == extract_items_from_text(d3, next_segment, game_id)
        e2 == [e1 EXCEPT !.story_log =
                  Append(@, [round |-> e1.current_round, text |-> next_segment,
                             action |-> action])]
    IN  IF seg.raised
        THEN Done(d, e1, f, "KeyError", NullText, Obs(recent_events, NoGen, NoGen, NoGen))
        ELSE IF u1.raised
        THEN Done(d, e1, f, "TypeError", NullText, Obs(recent_events, NoGen, seg.g, sum))
        ELSE Done(x4.db, e2, f, "returned", next_segment, Obs(recent_events, NoGen, seg.g, sum))

NoGameToEnd == "No active game to end."

\* _save_story_log: nothing is written for an empty story log
save_story_log(e, f, player) ==
    IF e.story_log = <<>> THEN f
    ELSE Append(f, [name |-> player.name, background |-> player.background,
                    traits |-> player.traits, description |-> player.description,
                    entries |-> e.story_log])

\* an end_game without the guard of lines 205-206
end_game_unguarded(d, e, f, player, epilogue_outcomes) ==
    LET recent_events == Db_get_recent_events(d, e.current_game_id, EndGameRecentLimit)
        epilogue == generate_text([name |-> player.name], Some(""), epilogue_outcomes).result
    IN  Done(d, e, save_story_log(e, f, player), "returned", epilogue,
             Obs(recent_events, NoGen, NoGen, NoGen))

end_game(d, e, f, player, epilogue_outcomes) ==
    IF e.current_game_id = NoneId THEN Done(d, e, f, "returned", NoGameToEnd, NoObs)
    ELSE LET recent_events == Db_get_recent_events(d, e.current_game_id, EndGameRecentLimit)
             epilogue == generate_text([name |-> player.name], Some(""), epilogue_outcomes).result
         IN  Done(d, e, save_story_log(e, f, player), "returned", epilogue,
                  Obs(recent_events, NoGen, NoGen, NoGen))

-----------------------------------------------------------------------------
(* story_engine.py: process_action, one statement at a time *)

\* the statements of process_action in the order of the source; a statement is added
\* to the trace of a call when it has completed
StepsOfProcessAction == <<"increment_round", "get_game_state", "generate_story_segment", "summarize_story", "update_game_state", "add_event", "extract", "append_story_log", "return">>

\* no call in progress
NoFrame ==
    [pc |-> "idle", action |-> "", trace |-> <<>>, outcome |-> "none", ret |-> NullText,
     game_state |-> Db_get_game_state(EmptyDb, NoneId), recent_events |-> <<>>,
     npcs |-> <<>>, next_segment |-> NullText, summary |-> NullText,
     segment_outcomes |-> <<>>, summary_outcomes |-> <<>>,
     entry |-> [db |-> EmptyDb, engine |-> NewEngine]]

\* what one statement leaves behind: the locals, the store and the engine
Stepped(fr, d, e) == [frame |-> fr, db |-> d, engine |-> e]

\* the statement has completed and control passes to the statement at pc
Completed(fr, pc) == [fr EXCEPT !.trace = Append(@, fr.pc), !.pc = pc]

\* the statement raised: the exception leaves process_action
Raised(fr, exception) == [fr EXCEPT !.pc = "raised", !.outcome = exception]

\* lines 112-113: the guard of process_action
process_action_enter(d, e, action) ==
    IF e.current_game_id = NoneId \/ e.current_player = None
    THEN [NoFrame EXCEPT !.pc = "returned", !.action = action, !.outcome = "returned",
                         !.ret = NoActiveGameError, !.entry = [db |-> d, engine |-> e]]
    ELSE [NoFrame EXCEPT !.pc = "increment_round", !.action = action,
                         !.entry = [db |-> d, engine |-> e]]

\* the statement at fr.pc, lines 118-201
process_action_step(fr, d, e, template, segment_outcomes, summary_outcomes) ==
    CASE fr.pc = "increment_round" ->
            Stepped(Completed(fr, "get_game_state"), d, [e EXCEPT !.current_round = @ + 1])
      [] fr.pc = "get_game_state" ->
            Stepped([Completed(fr, "generate_story_segment") EXCEPT
                        !.game_state = Db_get_game_state(d, e.current_game_id),
                        !.recent_events = Db_get_recent_events(d, e.current_game_id, DefaultRecentLimit),
                        !.npcs = Db_get_npcs(d, e.current_game_id)], d, e)
      [] fr.pc = "generate_story_segment" ->
            LET seg == generate_story_segment(fr.game_state.story_premise,
                           e.current_player[1].description, fr.game_state.current_situation,
                           fr.recent_events, fr.npcs, fr.action, template, segment_outcomes)
            IN  IF seg.raised THEN Stepped(Raised(fr, "KeyError"), d, e)
                ELSE Stepped([Completed(fr, "summarize_story") EXCEPT
                                 !.next_segment = seg.g.result,
                                 !.segment_outcomes = segment_outcomes], d, e)
      [] fr.pc = "summarize_story" ->
            Stepped([Completed(fr, "update_game_state") EXCEPT
                        !.summary = summarize_story(fr.game_state.story_premise,
                                        e.current_player[1].description,
                                        fr.game_state.current_summary, fr.recent_events,
                                        fr.npcs, fr.action, summary_outcomes).result,
                        !.summary_outcomes = summary_outcomes], d, e)
      [] fr.pc = "update_game_state" ->
            LET u1 == MM_update_game_state(d, <<e.current_game_id, e.current_round,
                          fr.next_segment, fr.game_state.story_premise, fr.summary>>)
            IN  IF u1.raised THEN Stepped(Raised(fr, "TypeError"), d, e)
                ELSE Stepped(Completed(fr, "add_event"), u1.db, e)
      [] fr.pc = "add_event" ->
            Stepped(Completed(fr, "extract"),
                    Db_add_event(d, e.current_game_id, e.current_round, fr.next_segment,
                                 fr.action), e)
      [] fr.pc = "extract" ->
            Stepped(Completed(fr, "append_story_log"),
                    extract_items_from_text(
                        extract_npcs_from_text(d, fr.next_segment, e.current_game_id,
                                               e.current_round),
                        fr.next_segment, e.current_game_id).db, e)
      [] fr.pc = "append_story_log" ->
            Stepped(Completed(fr, "return"), d,
                    [e EXCEPT !.story_log =
                        Append(@, [round |-> e.current_round, text |-> fr.next_segment,
                                   action |-> fr.action])])
      [] fr.pc = "return" ->
            Stepped([Completed(fr, "returned") EXCEPT !.outcome = "returned",
                                                      !.ret = fr.next_segment], d, e)

-----------------------------------------------------------------------------

(* input_handler.py: InputHandler *)

\* the methods that class StoryEngine defines
StoryEngineMethods == {"__init__", "print_slow", "start_game", "process_action", "end_game", "_save_story_log", "get_help_text"}

\* __init__: the fields are set, then story_engine.set_input_handler(self) is called;
\* AttributeError when the story_engine object has no such method
InputHandler_init(story_engine_methods) ==
    IF "set_input_handler" \in story_engine_methods
    THEN [raised |-> FALSE, handler |-> Some([expecting_choice |-> TRUE])]
    ELSE [raised |-> TRUE, handler |-> None]

\* self.commands: the keys and the method each one is bound to
CommandKeys == {"i", "inventory", "j", "journal", "c", "characters", "h", "help", "q", "quit", "exit"}
Commands(key) ==
    CASE key \in {"i", "inventory"} -> "_show_inventory"
      [] key \in {"j", "journal"} -> "_show_journal"
      [] key \in {"c", "characters"} -> "_show_characters"
      [] key \in {"h", "help"} -> "_show_help"
      [] key \in {"q", "quit", "exit"} -> "_quit_game"

\* command in self.commands, command being the characters of user_input.lower()
IsCommand(command) == \E key \in CommandKeys : Chars(key) = command
CommandKey(command) == CHOOSE key \in CommandKeys : Chars(key) = command

\* user_input.strip() in ["1", "2", "3"]
is_valid_choice(user_input) == Strip(Chars(user_input)) \in {<<"1">>, <<"2">>, <<"3">>}

\* the dict a command or process_input returns
Result(type, ends) == [type |-> type, end_game |-> ends]

\* _show_inventory, _show_journal, _show_characters: an error for a player without
\* game_id, otherwise what the memory manager returns is printed
show(d, e, f, player, type, shown) ==
    IF player.game_id = NoneId
    THEN Done(d, e, f, "returned", Result("error", FALSE), NoObs)
    ELSE Done(d, e, f, "returned", Result(type, FALSE), Obs(shown, NoGen, NoGen, NoGen))

\* _quit_game: confirm is the line read by input(), None at the end of the input
quit_game(d, e, f, confirm) ==
    IF confirm = None THEN Done(d, e, f, "EOFError", NullText, NoObs)
    ELSE IF StartsAt(Lower(Chars(confirm[1])), <<"y">>, 1)
    THEN Done(d, e, f, "returned", Result("quit", TRUE), NoObs)
    ELSE Done(d, e, f, "returned", Result("continue", FALSE), NoObs)

\* {"type": "story_action", "result": ...} around what process_action returned; an
\* exception of process_action leaves process_input
story_action(acted) ==
    IF acted.outcome = "returned" THEN [acted EXCEPT !.ret = Result("story_action", FALSE)]
    ELSE acted

\* self.commands[command](player)
run_command(method, d, e, f, player, confirm) ==
    CASE method = "_show_inventory" ->
            show(d, e, f, player, "inventory", Db_get_inventory(d, player.game_id))
      [] method = "_show_journal" ->
            show(d, e, f, player, "journal",
                 Db_get_recent_events(d, player.game_id, EndGameRecentLimit))
      [] method = "_show_characters" ->
            show(d, e, f, player, "characters", Db_get_npcs(d, player.game_id))
      [] method = "_show_help" -> Done(d, e, f, "returned", Result("help", FALSE), NoObs)
      [] method = "_quit_game" -> quit_game(d, e, f, confirm)

process_input(h, d, e, f, user_input, player, confirm, template, segment_outcomes, summary_outcomes) ==
    IF IsCommand(Lower(Chars(user_input)))
    THEN run_command(Commands(CommandKey(Lower(Chars(user_input)))), d, e, f, player, confirm)
    ELSE IF h.expecting_choice /\ ~is_valid_choice(user_input)
    THEN Done(d, e, f, "returned", Result("invalid_choice", FALSE), NoObs)
    ELSE story_action(process_action(d, e, f, user_input, template, segment_outcomes,
                                     summary_outcomes))

-----------------------------------------------------------------------------
(* main.py: main *)

\* the generation service of a run in which every request returns text
ReturnsText == <<"s1">>

\* the quit command reads a second line, its confirmation
IsQuit(user_input) ==
    /\ IsCommand(Lower(Chars(user_input)))
    /\ Commands(CommandKey(Lower(Chars(user_input)))) = "_quit_game"

\* the line that input() returns inside the quit command, None at the end of the input
ConfirmLine(inputs) ==
    IF IsQuit(Head(inputs)) /\ Len(inputs) >= 2 THEN Some(inputs[2]) ELSE None

\* the lines left after the first input has been processed
Rest(inputs) ==
    IF IsQuit(Head(inputs)) /\ Len(inputs) >= 2 THEN Tail(Tail(inputs)) ELSE Tail(inputs)

RECURSIVE MainLoop(_, _, _, _, _)
RECURSIVE AfterInput(_, _, _, _, _)

\* while game_active: process_input on the next line read
MainLoop(h, r, player, inputs, template) ==
    IF inputs = <<>> THEN [r EXCEPT !.outcome = "EOFError", !.ret = NullText]
    ELSE AfterInput(h, process_input(h, r.db, r.engine, r.files, Head(inputs), player,
                                     ConfirmLine(inputs), template, ReturnsText,
                                     ReturnsText),
                    player, Rest(inputs), template)

\* p is what process_input left: an exception leaves main, a result with end_game
\* leaves the loop for end_game(player), any other result continues the loop
AfterInput(h, p, player, rest, template) ==
    IF p.outcome # "returned" THEN p
    ELSE IF p.ret.end_game THEN end_game(p.db, p.engine, p.files, player, ReturnsText)
    ELSE MainLoop(h, p, player, rest, template)

\* after create_character: start_game(player), then the loop
Play(h, started, player, inputs, template) ==
    IF started.outcome # "returned" THEN started
    ELSE MainLoop(h, started, player, inputs, template)

\* after the components are constructed: create_character, which ends in create_player
Created(h, d1, f, inputs, template) ==
    Play(h, start_game(d1, NewEngine, f, get_player(d1, Len(d1.player)), template,
                       ReturnsText, ReturnsText),
         get_player(d1, Len(d1.player)), inputs, template)

\* the components of main.py:60-66, InputHandler the last of them
Constructed(h, d, f, name, inputs, template) ==
    IF h.raised THEN Done(d, NewEngine, f, "AttributeError", NullText, NoObs)
    ELSE Created(h.handler[1], create_player(d, name, "bg", "traits", "desc"), f, inputs,
                 template)

\* Config() writes the default story template when the file is absent
ConfigTemplate(template) ==
    IF template = None THEN Some(ConfigStoryPlaceholders) ELSE template

\* main(): an exception ends the run (main.py:103-105)
main(d, f, template, name, inputs) ==
    [env |-> ConfigTemplate(template),
     r |-> Constructed(InputHandler_init(StoryEngineMethods), d, f, name, inputs,
                       ConfigTemplate(template))]

-----------------------------------------------------------------------------
(* The game: the calls a client of the engine makes *)

\* attempt histories of one generate_text call: success at the first attempt, success
\* after a failed attempt, and failure of every attempt
Histories == {<<"s1">>, <<Fail, "">>, <<Fail, Fail, Fail>>}

\* the story-log entries that start_game made
Starts(story_log) == {i \in DOMAIN story_log : story_log[i].action = BeginAction}

IdleGen == [GenStart("", None) EXCEPT !.pc = "idle"]

\* the record of the call that finished last
Call(op, r, game_id, action, stored_before, events_before, round_before) ==
    [op |-> op, outcome |-> r.outcome, ret |-> r.ret, obs |-> r.obs,
     game_id |-> game_id, action |-> action,
     stored_before |-> stored_before,     \* the game's stored state before the call
     events_before |-> events_before,     \* the events table before the call
     round_before |-> round_before]       \* the engine's counter before the call

NoCall ==
    Call("none", Done(EmptyDb, NewEngine, <<>>, "none", NullText, NoObs), NoneId, "",
         Db_get_game_state(EmptyDb, NoneId), <<>>, 0)

Init ==
    /\ db = EmptyDb
    /\ engine = NewEngine
    /\ files = <<>>
    /\ env \in StoryTemplates
    /\ last = NoCall
    /\ gen = IdleGen
    /\ dbres = <<>>
    /\ handler = None
    /\ frame = NoFrame

\* config.py: _create_default_prompts writes the story template when the file is absent
ConfigCreateDefaults ==
    /\ env = None
    /\ env' = Some(ConfigStoryPlaceholders)
    /\ UNCHANGED <<db, engine, files, last, gen, dbres, handler, frame>>

\* character.py: create_character ends in db.create_player
CreatePlayer ==
    /\ Len(db.player) < MaxPlayers
    /\ \E name \in {Names[Len(db.player) + 1]} :
          /\ db' = create_player(db, name, "bg", "traits", "desc")
          /\ last' = Call("create_player",
                          Done(db', engine, files, "returned", NullText, NoObs),
                          Len(db.game_state) + 1, "", Db_get_game_state(db, NoneId),
                          db.events, engine.current_round)
    /\ UNCHANGED <<engine, files, env, gen, dbres, handler, frame>>

Finish(op, r, game_id, action) ==
    /\ db' = r.db
    /\ engine' = r.engine
    /\ files' = r.files
    /\ last' = Call(op, r, game_id, action, Db_get_game_state(db, game_id), db.events,
                    engine.current_round)
    /\ UNCHANGED <<env, gen, dbres, handler, frame>>

StartGame ==
    /\ Cardinality(Starts(engine.story_log)) < MaxStarts
    /\ \E player_id \in DOMAIN db.player, po \in Histories, so \in Histories :
          LET player == get_player(db, player_id)
          IN  Finish("start_game", start_game(db, engine, files, player, env, po, so),
                     player.game_id, BeginAction)

ProcessAction ==
    /\ engine.current_round < MaxRound
    /\ \E action \in PlayerActions, so \in Histories, uo \in Histories :
          Finish("process_action",
                 process_action(db, engine, files, action, env, so, uo),
                 engine.current_game_id, action)

\* main.py passes end_game the player it passed start_game
EndGame ==
    /\ Len(files) < MaxFiles
    /\ \E player_id \in DOMAIN db.player, eo \in Histories :
          /\ engine.current_player # None => engine.current_player[1].id = player_id
          /\ Finish("end_game", end_game(db, engine, files, get_player(db, player_id), eo),
                    engine.current_game_id, "")

\* input_handler.py: _show_inventory, _show_journal, _show_characters read the store
ShowCommand ==
    /\ \E player_id \in DOMAIN db.player, cmd \in {"inventory", "journal", "characters"} :
          LET game_id == get_player(db, player_id).game_id
              shown == CASE cmd = "inventory" -> Db_get_inventory(db, game_id)
                         [] cmd = "journal" -> Db_get_recent_events(db, game_id, EndGameRecentLimit)
                         [] OTHER -> Db_get_npcs(db, game_id)
          IN  last' = Call(cmd, Done(db, engine, files, "returned", NullText,
                                     Obs(shown, NoGen, NoGen, NoGen)),
                           game_id, "", Db_get_game_state(db, game_id), db.events,
                           engine.current_round)
    /\ UNCHANGED <<db, engine, files, env, gen, dbres, handler, frame>>

Next ==
    \/ ConfigCreateDefaults
    \/ CreatePlayer
    \/ StartGame
    \/ ProcessAction
    \/ EndGame
    \/ ShowCommand

Spec == Init /\ [][Next]_vars

-----------------------------------------------------------------------------
(* The terminal: the input handler and runs of main *)

InitMain ==
    /\ db = EmptyDb
    /\ engine = NewEngine
    /\ files = <<>>
    /\ env \in StoryTemplates
    /\ last = NoCall
    /\ gen = IdleGen
    /\ dbres = <<>>
    /\ handler = None
    /\ frame = NoFrame

\* InputHandler(story_engine, memory_manager): story_engine is a StoryEngine, as in
\* main.py:66, or an object of a client's class that has set_input_handler as well
NewInputHandler ==
    /\ handler = None
    /\ frame = NoFrame
    /\ \E methods \in {StoryEngineMethods, StoryEngineMethods \cup {"set_input_handler"}} :
          LET h == InputHandler_init(methods)
          IN  /\ handler' = h.handler
              /\ last' = Call("InputHandler",
                              Done(db, engine, files,
                                   IF h.raised THEN "AttributeError" ELSE "returned",
                                   NullText, NoObs),
                              NoneId, "", Db_get_game_state(db, NoneId), db.events,
                              engine.current_round)
    /\ UNCHANGED <<db, engine, files, env, gen, dbres, frame>>

\* start_game with a generation service that returns text
StartGameReturningText ==
    /\ Cardinality(Starts(engine.story_log)) < MaxStarts
    /\ \E player_id \in DOMAIN db.player :
          LET player == get_player(db, player_id)
          IN  Finish("start_game",
                     start_game(db, engine, files, player, env, ReturnsText, ReturnsText),
                     player.game_id, BeginAction)

\* process_input(user_input, player) on the handler, for a line typed at the prompt
ProcessInput ==
    /\ handler # None
    /\ engine.current_round < MaxRound
    /\ \E player_id \in DOMAIN db.player, user_input \in UserInputs, confirm \in Confirmations :
          Finish("process_input",
                 process_input(handler[1], db, engine, files, user_input,
                               get_player(db, player_id), Some(confirm), env,
                               ReturnsText, ReturnsText),
                 engine.current_game_id, user_input)

\* what a run of main leaves behind: the store, the files, the template file; its
\* StoryEngine and InputHandler objects end with the process
Exit(m, inputs) ==
    /\ db' = m.r.db
    /\ engine' = m.r.engine
    /\ files' = m.r.files
    /\ env' = m.env
    /\ handler' = None
    /\ last' = Call("main", m.r, Len(db.game_state) + 1, inputs,
                    Db_get_game_state(db, NoneId), db.events, engine.current_round)
    /\ UNCHANGED <<gen, dbres, frame>>

\* one run of main from start to exit, on the store and files left by earlier runs
Main ==
    /\ Len(db.player) < MaxPlayers
    /\ \E inputs \in Scripts :
          Exit(main(db, files, env, Names[Len(db.player) + 1], inputs), inputs)

NextMain ==
    \/ CreatePlayer
    \/ NewInputHandler
    \/ StartGameReturningText
    \/ ProcessInput
    \/ Main

SpecMain == InitMain /\ [][NextMain]_vars

-----------------------------------------------------------------------------
(* One generate_text call, attempt by attempt *)

InitGen ==
    /\ db = EmptyDb
    /\ engine = NewEngine
    /\ files = <<>>
    /\ env = None
    /\ last = NoCall
    /\ gen = IdleGen
    /\ dbres = <<>>
    /\ handler = None
    /\ frame = NoFrame

\* generate_text is entered: the messages are built, the loop starts
GenCall ==
    /\ gen.pc \in {"idle", "returned"}
    /\ \E prompt \in Prompts, system_prompt \in SystemPrompts :
          gen' = GenStart(prompt, system_prompt)
    /\ UNCHANGED <<db, engine, files, env, last, dbres, handler, frame>>

\* one attempt: the request returns a text or raises
GenAttempt ==
    /\ gen.pc = "loop"
    /\ \E o \in Outcomes : gen' = GenStep(gen, o)
    /\ UNCHANGED <<db, engine, files, env, last, dbres, handler, frame>>

NextGen ==
    \/ GenCall
    \/ GenAttempt

SpecGen == InitGen /\ [][NextGen]_vars

-----------------------------------------------------------------------------
(* The store alone: the Database calls of a client *)

GameIds == 1..MaxGames

InitDb ==
    /\ db = EmptyDb
    /\ engine = NewEngine
    /\ files = <<>>
    /\ env = None
    /\ last = NoCall
    /\ gen = IdleGen
    /\ dbres = <<>>
    /\ handler = None
    /\ frame = NoFrame

DbAddEvent ==
    /\ Len(db.events) < MaxEvents
    /\ \E game_id \in GameIds, round_num \in 1..MaxRound :
          db' = Db_add_event(db, game_id, round_num, "s1", "look")
    /\ UNCHANGED <<engine, files, env, last, gen, dbres, handler, frame>>

DbGetRecentEvents ==
    /\ \E game_id \in GameIds, limit \in 0..MaxLimit :
          dbres' = [op |-> "get_recent_events", game_id |-> game_id, limit |-> limit,
                    n_events |-> Len(db.events),    \* the rows of the table when queried
                    rows |-> Db_get_recent_events(db, game_id, limit)]
    /\ UNCHANGED <<db, engine, files, env, last, gen, handler, frame>>

\* MemoryManager.format_recent_events, with the default window and the smallest one
MMFormatRecentEvents ==
    /\ \E game_id \in GameIds, limit \in {1, DefaultRecentLimit} :
          dbres' = [op |-> "format_recent_events", game_id |-> game_id, limit |-> limit,
                    n_events |-> Len(db.events),
                    rows |-> format_recent_events(db, game_id, limit)]
    /\ UNCHANGED <<db, engine, files, env, last, gen, handler, frame>>

NextDb ==
    \/ DbAddEvent
    \/ DbGetRecentEvents
    \/ MMFormatRecentEvents

SpecDb == InitDb /\ [][NextDb]_vars

-----------------------------------------------------------------------------
(* The memory manager alone: NPC extraction on the texts of a game *)

InitMem ==
    /\ db = EmptyDb
    /\ engine = NewEngine
    /\ files = <<>>
    /\ env = None
    /\ last = NoCall
    /\ gen = IdleGen
    /\ dbres = <<>>
    /\ handler = None
    /\ frame = NoFrame

ExtractNpcs ==
    /\ Len(db.npcs) < MaxNpcs
    /\ \E game_id \in DOMAIN db.game_state, text \in NpcTexts, current_round \in {1, MaxRound} :
          /\ db' = extract_npcs_from_text(db, text, game_id, current_round)
          /\ dbres' = [op |-> "extract_npcs_from_text", text |-> text, game_id |-> game_id,
                       current_round |-> current_round, npcs_before |-> db.npcs]
    /\ UNCHANGED <<engine, files, env, last, gen, handler, frame>>

NextNpcs ==
    \/ CreatePlayer
    \/ ExtractNpcs

SpecNpcs == InitMem /\ [][NextNpcs]_vars

(* The memory manager alone: item extraction on the texts of a game *)

\* two games, each with the empty inventory that create_player gives it
InitItems ==
    /\ db = create_player(create_player(EmptyDb, Names[1], "bg", "traits", "desc"),
                          Names[2], "bg", "traits", "desc")
    /\ engine = NewEngine
    /\ files = <<>>
    /\ env = None
    /\ last = NoCall
    /\ gen = IdleGen
    /\ dbres = <<>>
    /\ handler = None
    /\ frame = NoFrame

\* the call made before this one was extract_items_from_text on this text and game
Rescan(res, text, game_id) ==
    /\ res # <<>>
    /\ res.op = "extract_items_from_text"
    /\ res.text = text
    /\ res.game_id = game_id

ExtractItems ==
    /\ \E game_id \in DOMAIN db.game_state, text \in ItemTexts :
          LET r == extract_items_from_text(db, text, game_id)
          IN  /\ Len(Db_get_inventory(db, game_id)) < MaxItems
              /\ db' = r.db
              /\ dbres' = [op |-> "extract_items_from_text", text |-> text,
                           game_id |-> game_id,
                           inventory_before |-> Db_get_inventory(db, game_id),
                           new_items |-> r.new_items,
                           rescan |-> Rescan(dbres, text, game_id)]
    /\ UNCHANGED <<engine, files, env, last, gen, handler, frame>>

NextItems ==
    \/ ExtractItems

SpecItems == InitItems /\ [][NextItems]_vars

-----------------------------------------------------------------------------
(* The game_state table alone: get_game_state and update_game_state on two games *)

\* the ids of the two games of the store, and an id that has no game_state row
StateGameIds == 1..3

InitState ==
    /\ db = create_player(create_player(EmptyDb, Names[1], "bg", "traits", "desc"),
                          Names[2], "bg", "traits", "desc")
    /\ engine = NewEngine
    /\ files = <<>>
    /\ env = None
    /\ last = NoCall
    /\ gen = IdleGen
    /\ dbres = <<>>
    /\ handler = None
    /\ frame = NoFrame

\* Database.update_game_state, each keyword argument given or left out
DbUpdateGameState ==
    /\ \E game_id \in StateGameIds,
          current_round \in {None, Some(MaxRound)},
          current_situation \in {None, Some(""), Some("s1")},
          story_premise \in {None, Some("p1")},
          current_summary \in {None, Some("u1")} :
          /\ db' = Db_update_game_state(db, game_id, current_round, current_situation,
                                        story_premise, current_summary)
          /\ dbres' = [op |-> "update_game_state", game_id |-> game_id,
                       args |-> <<current_round, current_situation, story_premise,
                                  current_summary>>,
                       before |-> db, ret |-> None]
    /\ UNCHANGED <<engine, files, env, last, gen, handler, frame>>

\* MemoryManager.update_game_state with one, two or three positional arguments
MMUpdateGameState ==
    /\ \E game_id \in StateGameIds :
       \E args \in {<<game_id>>, <<game_id, MaxRound>>, <<game_id, MaxRound, "">>,
                     <<game_id, MaxRound, "s1">>} :
          /\ db' = MM_update_game_state(db, args).db
          /\ dbres' = [op |-> "update_game_state", game_id |-> game_id,
                       args |-> <<Arg(args, 2), Arg(args, 3), None, None>>,
                       before |-> db, ret |-> None]
    /\ UNCHANGED <<engine, files, env, last, gen, handler, frame>>

DbGetGameState ==
    /\ \E game_id \in StateGameIds :
          dbres' = [op |-> "get_game_state", game_id |-> game_id, args |-> <<>>,
                    before |-> db, ret |-> Some(Db_get_game_state(db, game_id))]
    /\ UNCHANGED <<db, engine, files, env, last, gen, handler, frame>>

NextState ==
    \/ DbUpdateGameState
    \/ MMUpdateGameState
    \/ DbGetGameState

SpecState == InitState /\ [][NextState]_vars

-----------------------------------------------------------------------------
(* The player table alone: create_player and get_player *)

InitPlayers ==
    /\ db = EmptyDb
    /\ engine = NewEngine
    /\ files = <<>>
    /\ env = None
    /\ last = NoCall
    /\ gen = IdleGen
    /\ dbres = <<>>
    /\ handler = None
    /\ frame = NoFrame

\* Database.create_player: the three rows are inserted, get_player(player_id) returned;
\* description is None when the caller leaves it out
DbCreatePlayer ==
    /\ Len(db.player) < MaxCreated
    /\ \E name \in {Names[1], Names[2]}, description \in {NullText, "desc"} :
          /\ db' = create_player(db, name, "bg", "traits", description)
          /\ dbres' = [op |-> "create_player", player_id |-> Len(db.player) + 1,
                       before |-> db, ret |-> get_player(db', Len(db.player) + 1)]
    /\ UNCHANGED <<engine, files, env, last, gen, handler, frame>>

DbGetPlayer ==
    /\ \E player_id \in DOMAIN db.player :
          dbres' = [op |-> "get_player", player_id |-> player_id, before |-> db,
                    ret |-> get_player(db, player_id)]
    /\ UNCHANGED <<db, engine, files, env, last, gen, handler, frame>>

NextPlayers ==
    \/ DbCreatePlayer
    \/ DbGetPlayer

SpecPlayers == InitPlayers /\ [][NextPlayers]_vars

-----------------------------------------------------------------------------
(* One process_action call, statement by statement *)

\* the store and the engine as start_game leaves them, or the engine before start_game
AfterStart(started) ==
    /\ db = started.db
    /\ engine \in {NewEngine, started.engine}
    /\ files = <<>>
    /\ last = NoCall
    /\ gen = IdleGen
    /\ dbres = <<>>
    /\ handler = None
    /\ frame = NoFrame

InitSteps ==
    \E template \in StoryTemplates, premise_outcomes \in Histories :
        /\ env = template
        /\ AfterStart(start_game(create_player(EmptyDb, Names[1], "bg", "traits", "desc"),
                                 NewEngine, <<>>,
                                 get_player(create_player(EmptyDb, Names[1], "bg", "traits", "desc"), 1),
                                 template, premise_outcomes, ReturnsText))

\* process_action(action) is called: the guard is evaluated
PaCall ==
    /\ frame.pc \in {"idle", "returned", "raised"}
    /\ engine.current_round < MaxRound
    /\ \E action \in PlayerActions : frame' = process_action_enter(db, engine, action)
    /\ UNCHANGED <<db, engine, files, env, last, gen, dbres, handler>>

Advance(stepped) ==
    /\ frame' = stepped.frame
    /\ db' = stepped.db
    /\ engine' = stepped.engine
    /\ UNCHANGED <<files, env, last, gen, dbres, handler>>

\* the call in progress executes its next statement
PaStep ==
    /\ frame.pc \notin {"idle", "returned", "raised"}
    /\ \E so \in Histories, uo \in Histories :
          Advance(process_action_step(frame, db, engine, env, so, uo))

NextSteps ==
    \/ PaCall
    \/ PaStep

SpecSteps == InitSteps /\ [][NextSteps]_vars

-----------------------------------------------------------------------------
(* The memory manager alone: the writes that follow a generated segment *)

\* two games as create_player makes them
InitStore ==
    /\ db = create_player(create_player(EmptyDb, Names[1], "bg", "traits", "desc"),
                          Names[2], "bg", "traits", "desc")
    /\ engine = NewEngine
    /\ files = <<>>
    /\ env = None
    /\ last = NoCall
    /\ gen = IdleGen
    /\ dbres = <<>>
    /\ handler = None
    /\ frame = NoFrame

RECURSIVE CountItems(_, _)
\* the items of the inventory rows from row i on
CountItems(inventory, i) ==
    IF i > Len(inventory) THEN 0
    ELSE Len(inventory[i].items) + CountItems(inventory, i + 1)

\* the rows and items that the store holds
StoreRows(d) == Len(d.events) + Len(d.npcs) + CountItems(d.inventory, 1)

\* the numbers of event rows, NPC rows and items that a call found in the store
Held(d) == [events |-> Len(d.events), npcs |-> Len(d.npcs), items |-> CountItems(d.inventory, 1)]

\* MemoryManager.add_event
MMAddEvent ==
    /\ StoreRows(db) < MaxStoreRows
    /\ \E game_id \in DOMAIN db.game_state, player_action \in {"look"} :
          /\ db' = Db_add_event(db, game_id, MaxRound, "Found a key.", player_action)
          /\ dbres' = [op |-> "add_event", game_id |-> game_id, held |-> Held(db)]
    /\ UNCHANGED <<engine, files, env, last, gen, handler, frame>>

\* MemoryManager.extract_npcs_from_text on a segment
MMExtractNpcs ==
    /\ StoreRows(db) < MaxStoreRows
    /\ \E game_id \in DOMAIN db.game_state, text \in SegmentTexts :
          /\ db' = extract_npcs_from_text(db, text, game_id, MaxRound)
          /\ dbres' = [op |-> "extract_npcs_from_text", game_id |-> game_id, held |-> Held(db)]
    /\ UNCHANGED <<engine, files, env, last, gen, handler, frame>>

\* MemoryManager.extract_items_from_text on a segment
MMExtractItems ==
    /\ StoreRows(db) < MaxStoreRows
    /\ \E game_id \in DOMAIN db.game_state, text \in SegmentTexts :
          /\ db' = extract_items_from_text(db, text, game_id).db
          /\ dbres' = [op |-> "extract_items_from_text", game_id |-> game_id, held |-> Held(db)]
    /\ UNCHANGED <<engine, files, env, last, gen, handler, frame>>

NextStore ==
    \/ MMAddEvent
    \/ MMExtractNpcs
    \/ MMExtractItems

SpecStore == InitStore /\ [][NextStore]_vars

-----------------------------------------------------------------------------
(* The prompt builders alone: the context built from the events of a game *)

\* one game, and a story template file that matches the substitution call
InitPrompts ==
    /\ db = create_player(EmptyDb, Names[1], "bg", "traits", "desc")
    /\ engine = NewEngine
    /\ files = <<>>
    /\ env = Some(SegmentKeys)
    /\ last = NoCall
    /\ gen = IdleGen
    /\ dbres = <<>>
    /\ handler = None
    /\ frame = NoFrame

\* Database.add_event for the game, with the action of the round
DbAddEventOfAction ==
    /\ Len(db.events) < MaxEvents
    /\ \E round_num \in 1..MaxRound, player_action \in PlayerActions :
          db' = Db_add_event(db, 1, round_num, "s1", player_action)
    /\ UNCHANGED <<engine, files, env, last, gen, dbres, handler, frame>>

\* the prompt of a request: the content of the user message
PromptOf(g) == g.messages[Len(g.messages)].content

\* what a prompt builder was given and the recent-events context of its prompt
Built(op, recent_events, player_action, prompt) ==
    [op |-> op, recent_events |-> recent_events, player_action |-> player_action,
     events_text |-> prompt.recent_events]

\* LLMClient.generate_story_segment on the recent events of the game, as process_action
\* calls it
LlmGenerateStorySegment ==
    /\ \E player_action \in PlayerActions :
          dbres' = Built("generate_story_segment",
                         Db_get_recent_events(db, 1, DefaultRecentLimit), player_action,
                         PromptOf(generate_story_segment(
                             Db_get_game_state(db, 1).story_premise, "desc",
                             Db_get_game_state(db, 1).current_situation,
                             Db_get_recent_events(db, 1, DefaultRecentLimit),
                             Db_get_npcs(db, 1), player_action, env, ReturnsText).g))
    /\ UNCHANGED <<db, engine, files, env, last, gen, handler, frame>>

\* LLMClient.summarize_story on the recent events of the game, as process_action calls it
LlmSummarizeStory ==
    /\ \E player_action \in PlayerActions :
          dbres' = Built("summarize_story",
                         Db_get_recent_events(db, 1, DefaultRecentLimit), player_action,
                         PromptOf(summarize_story(
                             Db_get_game_state(db, 1).story_premise, "desc",
                             Db_get_game_state(db, 1).current_summary,
                             Db_get_recent_events(db, 1, DefaultRecentLimit),
                             Db_get_npcs(db, 1), player_action, ReturnsText)))
    /\ UNCHANGED <<db, engine, files, env, last, gen, handler, frame>>

NextPrompts ==
    \/ DbAddEventOfAction
    \/ LlmGenerateStorySegment
    \/ LlmSummarizeStory

SpecPrompts == InitPrompts /\ [][NextPrompts]_vars

-----------------------------------------------------------------------------
(* Properties *)

\* the stored state of game g
Stored(g) == db.game_state[g]
EventsOf(d_events, g) == SelectIdx(d_events, g, 1)
Empty(t) == t = NullText \/ t = ""

\* the last call was process_action on an active game
ActedOnActiveGame ==
    /\ last.op = "process_action"
    /\ last.game_id # NoneId
    /\ last.game_id \in DOMAIN db.game_state

\* C1: process_action on an active game whose stored current_round is n leaves the
\* stored current_round at n+1 and adds exactly one event row for the game, with
\* round n+1 and the action given.
C1_RoundAdvancesWithOneEvent ==
    ActedOnActiveGame =>
        LET n == last.stored_before.current_round
        IN  /\ Stored(last.game_id).current_round = n + 1
            /\ Len(db.events) = Len(last.events_before) + 1
            /\ SubSeq(db.events, 1, Len(last.events_before)) = last.events_before
            /\ db.events[Len(db.events)].game_id = last.game_id
            /\ db.events[Len(db.events)].round = n + 1
            /\ db.events[Len(db.events)].player_action = last.action

\* C2: when every attempt of a generation request of process_action fails, the request
\* yields the fallback string and the round still completes: no exception leaves
\* process_action, the stored round advances by one, an event of the new round exists.
C2_FallbackRoundCompletes ==
    (ActedOnActiveGame /\ (last.obs.seg_failed \/ last.obs.sum_failed)) =>
        /\ last.obs.seg_failed => last.obs.segment = Fallback
        /\ last.obs.sum_failed => last.obs.summary = Fallback
        /\ last.outcome = "returned"
        /\ Stored(last.game_id).current_round = last.stored_before.current_round + 1
        /\ \E i \in DOMAIN db.events :
              /\ i > Len(last.events_before)
              /\ db.events[i].game_id = last.game_id
              /\ db.events[i].round = Stored(last.game_id).current_round

FailedAttempts(seen) == Cardinality({i \in DOMAIN seen : seen[i] = Fail})

\* C3: generate_text makes at most 3 attempts and stops at the first that succeeds; it
\* waits 2 after the first failed attempt and twice the previous wait after each later
\* failed attempt that another attempt follows; when all 3 attempts fail it returns the
\* fallback string (it never raises).
C3_BoundedRetryWithBackoff ==
    gen.pc \in {"loop", "returned"} =>
        /\ Len(gen.seen) <= 3
        /\ \A i \in DOMAIN gen.seen : gen.seen[i] # Fail => i = Len(gen.seen)
        /\ gen.pc = "loop" => (FailedAttempts(gen.seen) = Len(gen.seen) /\ Len(gen.seen) < 3)
        /\ (gen.pc = "returned" /\ gen.seen[Len(gen.seen)] # Fail) =>
                gen.result = gen.seen[Len(gen.seen)]
        /\ (gen.pc = "returned" /\ gen.seen[Len(gen.seen)] = Fail) =>
                (Len(gen.seen) = 3 /\ gen.result = Fallback)
        /\ Len(gen.slept) = (IF FailedAttempts(gen.seen) = 3 THEN 2 ELSE FailedAttempts(gen.seen))
        /\ \A i \in DOMAIN gen.slept :
              gen.slept[i] = (IF i = 1 THEN 2 ELSE 2 * gen.slept[i - 1])

\* all three attempts failed, two waits were made, the fallback was returned
C3_Witness ==
    /\ gen.pc = "returned"
    /\ gen.seen = <<Fail, Fail, Fail>>
    /\ gen.slept = <<2, 4>>
    /\ gen.result = Fallback

\* C4: after start_game for a newly created player the stored state has
\* current_round 1, story_premise and current_summary equal to the generated premise,
\* and the game has exactly one event: round 1, action "begin the adventure", the
\* opening segment as description.
C4_StartGameStoresPremiseAndOpening ==
    (last.op = "start_game" /\ EventsOf(last.events_before, last.game_id) = <<>>) =>
        /\ last.outcome = "returned"
        /\ Stored(last.game_id).current_round = 1
        /\ Stored(last.game_id).story_premise = last.obs.opening
        /\ Stored(last.game_id).current_summary = last.obs.opening
        /\ LET idx == EventsOf(db.events, last.game_id)
           IN  /\ Len(idx) = 1
               /\ db.events[idx[1]].round = 1
               /\ db.events[idx[1]].player_action = "begin the adventure"
               /\ db.events[idx[1]].description = last.obs.segment

\* the premise generated by the engine's latest start_game call
LatestOpening ==
    LET starts == Starts(engine.story_log)
    IN  engine.story_log[CHOOSE i \in starts : \A j \in starts : j <= i].text

\* the engine's game was started by start_game, for a player that has a game
GameStarted ==
    /\ engine.current_game_id \in DOMAIN db.game_state
    /\ Starts(engine.story_log) # {}

C7_StoredRoundNeverDecreases ==
    [][\A g \in DOMAIN db.game_state :
          db'.game_state[g].current_round >= db.game_state[g].current_round]_vars

\* process_action has run on an active game after start_game, and the engine's own
\* counter has advanced
C7_Witness ==
    /\ ActedOnActiveGame
    /\ engine.current_round = last.round_before + 1

\* C8: after process_action has produced a new segment, it returns it, the stored
\* current_situation is the full text of that segment and the stored current_summary
\* is the summary generated in that round.
C8_SituationAndSummaryStored ==
    (ActedOnActiveGame /\ last.obs.segment # NullText) =>
        /\ last.outcome = "returned"
        /\ last.ret = last.obs.segment
        /\ Stored(last.game_id).current_situation = last.obs.segment
        /\ Stored(last.game_id).current_summary = last.obs.summary

\* C9: for every round n >= 1, the recent-events list that process_action reads while
\* producing round n+1 contains the event stored for round n.
C9_RecentEventsHoldPreviousRound ==
    ActedOnActiveGame =>
        \E i \in DOMAIN last.obs.recent :
            /\ last.obs.recent[i].game_id = last.game_id
            /\ last.obs.recent[i].round = last.round_before

\* the store alone: a query with limit >= 1 on a game that has events returns the
\* game's event of the highest round (refuted: ORDER BY round ASC LIMIT keeps the
\* lowest rounds)
RecentEventsIncludeLatestRound ==
    (dbres # <<>> /\ dbres.op = "get_recent_events" /\ dbres.limit >= 1) =>
        \A i \in 1..dbres.n_events :
            db.events[i].game_id = dbres.game_id =>
                \E k \in DOMAIN dbres.rows : dbres.rows[k].round >= db.events[i].round

Ascending(rows) == \A i \in 1..(Len(rows) - 1) : rows[i].round <= rows[i + 1].round

\* C10: get_recent_events(game_id, limit) returns only events of that game, at most
\* limit of them, in ascending order of round number.
C10_RecentEventsOfGameBoundedAscending ==
    (dbres # <<>> /\ dbres.op = "get_recent_events") =>
        /\ Len(dbres.rows) <= dbres.limit
        /\ Ascending(dbres.rows)
        /\ \A i \in DOMAIN dbres.rows :
              /\ dbres.rows[i].game_id = dbres.game_id
              /\ dbres.rows[i].id \in 1..dbres.n_events
              /\ db.events[dbres.rows[i].id].game_id = dbres.game_id
              /\ db.events[dbres.rows[i].id].round = dbres.rows[i].round
        /\ \A i, j \in DOMAIN dbres.rows : i # j => dbres.rows[i].id # dbres.rows[j].id

\* the game has more events than the limit, stored out of round order, beside another
\* game's event; the limit cuts the result to the event of the lowest round
C10_Witness ==
    /\ dbres # <<>>
    /\ dbres.op = "get_recent_events"
    /\ dbres.n_events = Len(db.events)
    /\ dbres.limit = 1
    /\ Len(dbres.rows) = 1
    /\ Len(EventsOf(db.events, dbres.game_id)) = 2
    /\ db.events[1].game_id = dbres.game_id
    /\ db.events[1].round > dbres.rows[1].round
    /\ \E i \in DOMAIN db.events : db.events[i].game_id # dbres.game_id

\* the npcs rows of game g, in rowid order
NpcsOf(g) == Db_get_npcs(db, g)

\* C11: after any sequence of extract_npcs_from_text calls, on any texts (a text may
\* propose the same name more than once in one call), no two npcs rows of the same game
\* have names that are equal ignoring case.
C11_NpcNamesUniqueIgnoringCase ==
    \A g \in DOMAIN db.game_state :
        \A i, j \in DOMAIN NpcsOf(g) :
            i # j => Lower(NpcsOf(g)[i].name) # Lower(NpcsOf(g)[j].name)

\* the names that are never to be stored, compared ignoring case
Pronouns == {<<"y","o","u">>, <<"i">>, <<"w","e">>, <<"t","h","e","y">>}

\* C12: for every input text, extract_npcs_from_text never inserts an NPC whose name,
\* ignoring case, is "you", "i", "we" or "they", whether the name is proposed by the
\* colon-attribution pattern or by the speech-verb pattern.
C12_PronounsNeverInserted ==
    \A i \in DOMAIN db.npcs : Lower(db.npcs[i].name) \notin Pronouns

\* a text whose lines propose each pronoun by both patterns, and then a real name, has
\* been scanned: only the real name was inserted
C12_Witness ==
    /\ dbres # <<>>
    /\ dbres.op = "extract_npcs_from_text"
    /\ Contains(Lower(Chars(dbres.text)), <<"y","o","u",":">>)
    /\ Contains(Lower(Chars(dbres.text)), <<"t","h","e","y"," ","s","h","o","u","t","e","d">>)
    /\ Len(db.npcs) = Len(dbres.npcs_before) + 1
    /\ db.npcs[Len(db.npcs)].name = <<"A", "l">>

NoDuplicates(seq) == \A i, j \in DOMAIN seq : i # j => seq[i] # seq[j]
IsPrefix(a, b) == Len(a) <= Len(b) /\ SubSeq(b, 1, Len(a)) = a

\* extract_items_from_text has just run for the second time in a row on the same text
\* for the same game
RescannedSameText ==
    /\ dbres # <<>>
    /\ dbres.op = "extract_items_from_text"
    /\ dbres.rescan

\* C13: running extract_items_from_text twice in a row on the same text for the same
\* game leaves the inventory after the second run identical to the inventory after the
\* first run, and the second run reports no new items.
C13_RescanAddsNothing ==
    RescannedSameText =>
        /\ Db_get_inventory(db, dbres.game_id) = dbres.inventory_before
        /\ dbres.new_items = <<>>

\* a text that yields items has been scanned twice in a row: the inventory holds them
C13_Witness ==
    /\ RescannedSameText
    /\ Len(Db_get_inventory(db, dbres.game_id)) >= 2
    /\ InSeq(<<"o","l","d"," ","m","a","p">>, Db_get_inventory(db, dbres.game_id))

\* C14: starting from the empty inventory created with the game, after any sequence of
\* extract_items_from_text calls the stored inventory contains no duplicate item label,
\* and the inventory before each call is a prefix of the inventory after it.
C14_InventoryUniqueAndAppendOnly ==
    /\ \A g \in DOMAIN db.game_state : NoDuplicates(Db_get_inventory(db, g))
    /\ (dbres # <<>> /\ dbres.op = "extract_items_from_text") =>
          /\ IsPrefix(dbres.inventory_before, Db_get_inventory(db, dbres.game_id))
          /\ Db_get_inventory(db, dbres.game_id) = dbres.inventory_before \o dbres.new_items

\* a call on a text that names one item twice and another once has appended to a
\* non-empty inventory, beside the other game's inventory
C14_Witness ==
    /\ dbres # <<>>
    /\ dbres.op = "extract_items_from_text"
    /\ dbres.inventory_before # <<>>
    /\ Len(dbres.new_items) >= 1
    /\ Contains(Lower(Chars(dbres.text)), <<"f","o","u","n","d"," ","a"," ","k","e","y",",">>)
    /\ Len(Db_get_inventory(db, dbres.game_id)) = 3

\* C18: get_game_state for a game id that has no game_state row returns the default
\* state, current_round 1 and empty situation, premise and summary; it does not raise
\* and it writes nothing to the store.
C18_MissingGameStateIsDefault ==
    (dbres # <<>> /\ dbres.op = "get_game_state"
        /\ dbres.game_id \notin DOMAIN dbres.before.game_state) =>
        /\ dbres.ret = Some([id |-> dbres.game_id, current_round |-> 1,
                             current_situation |-> "", story_premise |-> "",
                             current_summary |-> ""])
        /\ db = dbres.before

\* the state of an id without a row has been read from a store whose games have been
\* updated
C18_Witness ==
    /\ dbres # <<>>
    /\ dbres.op = "get_game_state"
    /\ dbres.game_id \notin DOMAIN db.game_state
    /\ db.game_state[1].current_round = MaxRound
    /\ db.game_state[2].story_premise = "p1"

\* the row that a call with these arguments is to leave behind
Updated(row, args) ==
    [player_id |-> row.player_id,
     current_round |-> IF args[1] = None THEN row.current_round ELSE args[1][1],
     current_situation |-> IF args[2] = None THEN row.current_situation ELSE args[2][1],
     story_premise |-> IF args[3] = None THEN row.story_premise ELSE args[3][1],
     current_summary |-> IF args[4] = None THEN row.current_summary ELSE args[4][1]]

EventsAtCall == Cardinality({i \in 1..dbres.n_events : db.events[i].game_id = dbres.game_id})
Min(a, b) == IF a <= b THEN a ELSE b

\* C20: format_recent_events returns the fixed message "No events recorded yet." when
\* the game has no events; when the game has k events within the window it renders
\* exactly k blocks, one per event, in ascending round order.
C20_RecentEventsBlocksAscending ==
    (dbres # <<>> /\ dbres.op = "format_recent_events") =>
        /\ EventsAtCall = 0 =>
              dbres.rows = [text |-> "No events recorded yet.", blocks |-> <<>>]
        /\ EventsAtCall > 0 =>
              /\ dbres.rows.text # "No events recorded yet."
              /\ Len(dbres.rows.blocks) = Min(EventsAtCall, dbres.limit)
              /\ Ascending(dbres.rows.blocks)

\* the same with the order left open: the fixed message for no events, otherwise one
\* block per event of the window
RecentEventsBlocksCounted ==
    (dbres # <<>> /\ dbres.op = "format_recent_events") =>
        /\ EventsAtCall = 0 =>
              dbres.rows = [text |-> "No events recorded yet.", blocks |-> <<>>]
        /\ EventsAtCall > 0 =>
              /\ dbres.rows.text # "No events recorded yet."
              /\ Len(dbres.rows.blocks) = Min(EventsAtCall, dbres.limit)

\* the line typed is one of the commands, in any case
TypedCommand(user_input) == IsCommand(Lower(Chars(user_input)))

\* C15: with a generation service that returns text, the main flow: create the player,
\* start the game, enter the free-text action "explore the ruins", then quit and
\* confirm, ends in a state in which the stored round counter is 2, exactly one stored
\* event has the action "explore the ruins", and a transcript has been written that
\* holds the player's name and the narrative text of both rounds.
C15_MainFlowEndToEnd ==
    (last.op = "main" /\ last.action = <<"explore the ruins", "q", "y">>) =>
        /\ last.outcome = "returned"
        /\ last.game_id \in DOMAIN db.game_state
        /\ Stored(last.game_id).current_round = 2
        /\ Cardinality({i \in DOMAIN db.events :
                            /\ db.events[i].game_id = last.game_id
                            /\ db.events[i].player_action = "explore the ruins"}) = 1
        /\ \E k \in DOMAIN files :
              /\ files[k].name = db.player[db.game_state[last.game_id].player_id].name
              /\ \E i, j \in DOMAIN files[k].entries :
                    /\ files[k].entries[i].round = 1
                    /\ files[k].entries[j].round = 2
                    /\ files[k].entries[j].action = "explore the ruins"

\* end_game has just written the transcript of the engine's game
TranscriptWritten ==
    /\ last.op = "end_game"
    /\ last.game_id # NoneId
    /\ engine.story_log # <<>>
    /\ files # <<>>

\* C16: when end_game writes the transcript, its round entries correspond one-to-one
\* and in ascending round order to the events stored for the game: each entry carries
\* the round number, the narrative text and the action of the stored event of that
\* round.
C16_TranscriptMatchesEvents ==
    TranscriptWritten =>
        LET entries == files[Len(files)].entries
            idx == EventsOf(db.events, last.game_id)
        IN  /\ Len(entries) = Len(idx)
            /\ Ascending(entries)
            /\ \A i \in DOMAIN entries :
                  i <= Len(idx) =>
                      /\ entries[i].round = db.events[idx[i]].round
                      /\ entries[i].text = db.events[idx[i]].description
                      /\ entries[i].action = db.events[idx[i]].player_action

\* the type of result that the command bound to a key returns
CommandResultTypes(key) ==
    CASE key \in {"i", "inventory"} -> {"inventory"}
      [] key \in {"j", "journal"} -> {"journal"}
      [] key \in {"c", "characters"} -> {"characters"}
      [] key \in {"h", "help"} -> {"help"}
      [] key \in {"q", "quit", "exit"} -> {"quit", "continue"}

\* process_input has run for a player of the engine's active game
InputProcessed ==
    /\ last.op = "process_input"
    /\ last.game_id # NoneId

\* C17: process_input dispatches the inputs i/inventory, j/journal, c/characters,
\* h/help, q/quit/exit, in any case, to their commands, and passes every other input
\* string to process_action as a free-text player action, so that every non-command
\* input advances the game by one round.
C17_CommandsDispatchedElseAction ==
    InputProcessed =>
        /\ TypedCommand(last.action) =>
              /\ last.outcome = "returned"
              /\ last.ret.type \in CommandResultTypes(CommandKey(Lower(Chars(last.action))))
              /\ engine.current_round = last.round_before
        /\ ~TypedCommand(last.action) =>
              /\ last.outcome = "returned"
              /\ last.ret.type = "story_action"
              /\ engine.current_round = last.round_before + 1
              /\ Stored(last.game_id).current_round = last.stored_before.current_round + 1

\* the command half alone: every command key, in any case, runs its command and leaves
\* the round and the store as they were
CommandsDispatched ==
    (InputProcessed /\ TypedCommand(last.action)) =>
        /\ last.outcome = "returned"
        /\ last.ret.type \in CommandResultTypes(CommandKey(Lower(Chars(last.action))))
        /\ engine.current_round = last.round_before
        /\ db.game_state[last.game_id] = [player_id |-> db.game_state[last.game_id].player_id,
              current_round |-> last.stored_before.current_round,
              current_situation |-> last.stored_before.current_situation,
              story_premise |-> last.stored_before.story_premise,
              current_summary |-> last.stored_before.current_summary]

\* the free-text half alone, up to the call: an input that is neither a command nor one
\* of "1", "2", "3" reaches process_action (refuted: expecting_choice is always True)
FreeTextReachesProcessAction ==
    (InputProcessed /\ ~TypedCommand(last.action) /\ ~is_valid_choice(last.action)) =>
        (last.outcome # "returned" \/ last.ret.type = "story_action")

\* a choice "1", "2" or "3" reaches process_action and the round completes (refuted:
\* process_action raises TypeError)
ChoiceCompletesRound ==
    (InputProcessed /\ is_valid_choice(last.action)) => last.outcome = "returned"

\* C21: every story template that generate_story_segment substitutes, the default one
\* that Config writes when the file is absent included, uses only the placeholders
\* character_info, story_premise, summary, recent_events, npc_relationships and
\* player_response, so the substitution supplies every placeholder and does not fail.
C21_StoryTemplateSubstitutes ==
    [][/\ (env = None /\ env' # None) => Placeholders(env') \subseteq SegmentKeys
       /\ last'.op \in {"start_game", "process_action"} => last'.outcome # "KeyError"]_vars

GamesOfPlayer(p) == {g \in DOMAIN db.game_state : db.game_state[g].player_id = p}
InventoryRowsOf(g) == {i \in DOMAIN db.inventory : db.inventory[i].game_id = g}

\* C22: after any sequence of create_player calls, every player row has exactly one
\* game_state row referring to it and that game state has exactly one inventory row,
\* which is the empty list at creation; the player returned by create_player carries
\* the id of its game state.
C22_PlayerGameInventoryOneToOne ==
    /\ \A p \in DOMAIN db.player :
          /\ Cardinality(GamesOfPlayer(p)) = 1
          /\ \A g \in GamesOfPlayer(p) : Cardinality(InventoryRowsOf(g)) = 1
    /\ \A g \in DOMAIN db.game_state : db.game_state[g].player_id \in DOMAIN db.player
    /\ (dbres # <<>> /\ dbres.op = "create_player") =>
          /\ dbres.ret.id = dbres.player_id
          /\ dbres.player_id \notin DOMAIN dbres.before.player
          /\ GamesOfPlayer(dbres.player_id) = {dbres.ret.game_id}
          /\ dbres.ret.game_id \notin DOMAIN dbres.before.game_state
          /\ \A i \in InventoryRowsOf(dbres.ret.game_id) : db.inventory[i].items = <<>>
          /\ Db_get_inventory(db, dbres.ret.game_id) = <<>>
          /\ dbres.ret.name = db.player[dbres.player_id].name

\* the third player has just been created, without a description, after two others
C22_Witness ==
    /\ dbres # <<>>
    /\ dbres.op = "create_player"
    /\ Len(db.player) = 3
    /\ dbres.ret.game_id = 3
    /\ dbres.ret.description = NullText
    /\ db.player[1].name = db.player[2].name

\* a process_action call on an active game has ended, by return or by an exception
CallEnded ==
    /\ frame.pc \in {"returned", "raised"}
    /\ frame.entry.engine.current_game_id # NoneId

\* C23: within one process_action call the steps occur in this order: the round counter
\* is incremented, the state is read from the store, the segment request and then the
\* summary request are made, and only after both have returned is the game state
\* updated, then the event appended, then the extraction run on the new segment, then
\* the segment returned; no write to the store precedes the generation requests.
C23_StepsInOrder ==
    /\ IsPrefix(frame.trace, StepsOfProcessAction)
    /\ (frame.pc # "idle" /\ ~InSeq("summarize_story", frame.trace)) => db = frame.entry.db
    /\ (CallEnded /\ ~FormatRaises(env, SegmentKeys)) =>
          /\ frame.trace = StepsOfProcessAction
          /\ frame.ret = frame.next_segment

\* the order alone: the statements a call has completed are an initial part of the
\* order of the source, and the store is as it was at entry until both requests have
\* returned
StepsFollowSourceOrder ==
    /\ IsPrefix(frame.trace, StepsOfProcessAction)
    /\ (frame.pc # "idle" /\ ~InSeq("summarize_story", frame.trace)) => db = frame.entry.db

\* a call run statement by statement ends as the call taken as a whole
StepsAgreeWithCall ==
    CallEnded =>
        LET r == process_action(frame.entry.db, frame.entry.engine, files, frame.action,
                                env, frame.segment_outcomes, frame.summary_outcomes)
        IN  /\ r.db = db
            /\ r.engine = engine
            /\ r.outcome = frame.outcome
            /\ r.ret = frame.ret

\* start_game or process_action has ended for a game of the store, with a story
\* template that the substitution call satisfies
RoundCallEnded ==
    /\ last.op \in {"start_game", "process_action"}
    /\ last.game_id \in DOMAIN db.game_state
    /\ ~FormatRaises(env, SegmentKeys)

InsertedEventHasStoredRound ==
    [][\A i \in DOMAIN db'.events :
          i > Len(db.events) =>
              db'.events[i].round = db'.game_state[db'.events[i].game_id].current_round]_vars

\* every row and item of store a is in store b: the events unchanged, the NPC rows with
\* their names and games, the items of each inventory
Kept(a, b) ==
    /\ IsPrefix(a.events, b.events)
    /\ Len(a.npcs) <= Len(b.npcs)
    /\ \A i \in DOMAIN a.npcs :
          /\ b.npcs[i].name = a.npcs[i].name
          /\ b.npcs[i].game_id = a.npcs[i].game_id
    /\ Len(a.inventory) <= Len(b.inventory)
    /\ \A i \in DOMAIN a.inventory :
          /\ b.inventory[i].game_id = a.inventory[i].game_id
          /\ \A k \in DOMAIN a.inventory[i].items :
                InSeq(a.inventory[i].items[k], b.inventory[i].items)

\* C25: events, NPCs and inventory items only grow: an event row, NPC row or inventory
\* item present in the store in some state is still present, with the same round, text
\* and action (events) and the same name (NPCs), in every later state.
C25_RowsOnlyGrow ==
    [][Kept(db, db')]_vars

\* a call has added to a store that held an event, an NPC and an item
C25_Witness ==
    /\ dbres # <<>>
    /\ dbres.held.events > 0
    /\ dbres.held.npcs > 0
    /\ dbres.held.items > 0
    /\ StoreRows(db) > dbres.held.events + dbres.held.npcs + dbres.held.items

\* C26: every NPC name that extract_npcs_from_text inserts is shorter than 20
\* characters, whether it was found by the colon-attribution pattern or by the
\* speech-verb pattern (says/said/asked/replied/shouted/whispered).
C26_NpcNamesShorterThan20 ==
    \A i \in DOMAIN db.npcs : Len(db.npcs[i].name) < 20

\* the colon pattern alone: no inserted name is the 20-character speaker of a
\* "Name: dialogue" line (holds: the check of line 64)
ColonNamesShorterThan20 ==
    \A i \in DOMAIN db.npcs :
        db.npcs[i].name # SubSeq(Chars("Abcdefghijklmnopqrsu: 'x'\nAbcdefghijklmnopqrst said 'x'"), 1, 20)

\* end_game has written the transcript of game g's player
Ended(g) ==
    /\ g \in DOMAIN db.game_state
    /\ \E k \in DOMAIN files : files[k].name = db.player[db.game_state[g].player_id].name

\* C27: ENDED is a terminal state: once end_game has run for a game, no later
\* process_action call advances the round counter or appends an event for that game.
C27_EndedIsTerminal ==
    [][(Ended(engine.current_game_id) /\ last'.op = "process_action") =>
          /\ engine'.current_round = engine.current_round
          /\ db'.events = db.events]_vars

\* the store alone after end_game: no later call changes the stored round or the events
\* of the ended game (holds: no engine call writes them)
EndedGameStoreUnchanged ==
    [][Ended(engine.current_game_id) =>
          /\ db'.events = db.events
          /\ db'.game_state[engine.current_game_id] = db.game_state[engine.current_game_id]]_vars

\* start_game or process_action has ended, by return or by an exception, and the engine
\* has an active game
RoundCallEndedOnActiveGame ==
    /\ last.op \in {"start_game", "process_action"}
    /\ engine.current_game_id \in DOMAIN db.game_state

\* C28: whenever start_game or process_action has finished (normally or by an
\* exception), the engine's in-memory round counter equals the stored current_round of
\* the active game, and the number of entries in the in-memory story log equals the
\* number of rounds recorded so far.
C28_EngineAgreesWithStore ==
    RoundCallEndedOnActiveGame =>
        /\ engine.current_round = Stored(engine.current_game_id).current_round
        /\ Len(engine.story_log) = Len(EventsOf(db.events, engine.current_game_id))

\* the counter alone
EngineRoundIsStoredRound ==
    RoundCallEndedOnActiveGame =>
        engine.current_round = Stored(engine.current_game_id).current_round

\* the engine has no active game: the guard of process_action
NoActiveGame == engine.current_game_id = NoneId \/ engine.current_player = None

\* C29: process_action called when no game is active (before start_game) returns the
\* error text "Error: No active game." and leaves the round counter, the story log and
\* the store unchanged, making no generation request; end_game called with no active
\* game returns "No active game to end." and writes no transcript.
C29_NoActiveGameRejected ==
    [][/\ (last'.op = "process_action" /\ NoActiveGame) =>
             /\ last'.outcome = "returned"
             /\ last'.ret = "Error: No active game."
             /\ last'.obs = NoObs
             /\ engine' = engine
             /\ db' = db
             /\ files' = files
       /\ (last'.op = "end_game" /\ engine.current_game_id = NoneId) =>
             /\ last'.outcome = "returned"
             /\ last'.ret = "No active game to end."
             /\ last'.obs = NoObs
             /\ engine' = engine
             /\ db' = db
             /\ files' = files]_vars

\* process_action has been called for a created player whose game was not started
C29_Witness ==
    /\ last.op = "process_action"
    /\ last.action = "look"
    /\ last.ret = NoActiveGameError
    /\ db.player # <<>>
    /\ engine = NewEngine

\* the context renders each event given once, in the order given, with its round, its
\* text and the action recorded in it
RendersEvents(built) ==
    /\ Len(built.events_text) = Len(built.recent_events)
    /\ \A i \in DOMAIN built.recent_events :
          /\ built.events_text[i].round = built.recent_events[i].round
          /\ built.events_text[i].description = built.recent_events[i].description
          /\ built.events_text[i].player_choice = built.recent_events[i].player_action

\* C30: in the recent-events context built for the summary request, as in the one built
\* for the segment request, each stored event is rendered exactly once, in the order
\* received, together with the player action that was recorded in that event.
C30_ContextRendersRecordedActions ==
    (dbres # <<>> /\ dbres.recent_events # <<>>) => RendersEvents(dbres)

\* the segment request alone (holds: player_choice = event.get('player_action'))
SegmentContextRendersRecordedActions ==
    (dbres # <<>> /\ dbres.op = "generate_story_segment" /\ dbres.recent_events # <<>>) =>
        RendersEvents(dbres)

====
